---------------------------- MODULE Spec2Model ----------------------------
(***************************************************************************)
(* Model of the content conversion pipeline of the Telegraph client        *)
(* library (content.ts): parse, markdownToHtml, the sanitizer as           *)
(* configured by HTML_SANITIZER_OPTIONS, domToNode and the embed URL        *)
(* classifier transformToIframeURL.                                         *)
(*                                                                          *)
(* Strings are sequences of one-character strings, so that trimming,        *)
(* regular expression tests, replace() and encodeURIComponent are computed  *)
(* character by character.  Markup is represented by the tree an HTML       *)
(* parser reads from it; Markdown text by its block structure.              *)
(***************************************************************************)
EXTENDS Integers, Sequences, FiniteSets, TLC

(***************************************************************************)
(* Characters and strings                                                   *)
(***************************************************************************)
Lower == {"a","b","c","d","e","f","g","h","i","j","k","l","m",
          "n","o","p","q","r","s","t","u","v","w","x","y","z"}
Upper == {"A","B","C","D","E","F","G","H","I","J","K","L","M",
          "N","O","P","Q","R","S","T","U","V","W","X","Y","Z"}
Digit == {"0","1","2","3","4","5","6","7","8","9"}
\* \w of a JavaScript regular expression
WordChar == Lower \cup Upper \cup Digit \cup {"_"}
\* characters "." does not match
LineTerminator == {"\n", "\r"}
\* what String.prototype.trim removes (the part of it the model's texts use)
WhiteSpace == {" ", "\t", "\n", "\r", "\f"}

\* Optional values: undefined is None, a present value v is Some(v).
None == << >>
Some(v) == << v >>

Min(a, b) == IF a <= b THEN a ELSE b

RECURSIVE Concat(_)
\* the concatenation of a sequence of strings
Concat(ss) == IF ss = << >> THEN << >> ELSE Head(ss) \o Concat(Tail(ss))

\* s starts with prefix p at offset i (0-based)
HasAt(s, i, p) == /\ i + Len(p) <= Len(s)
                  /\ \A k \in 1..Len(p) : s[i + k] = p[k]

(***************************************************************************)
(* Regular expressions, RegExp.prototype.test                               *)
(***************************************************************************)
Lit(str)      == [k |-> "lit", str |-> str]
Dot           == [k |-> "dot"]
Cls(set)      == [k |-> "cls", set |-> set]
NotCls(set)   == [k |-> "ncls", set |-> set]
Bol           == [k |-> "bol"]
Cat(rs)       == [k |-> "cat", rs |-> rs]
Alt(rs)       == [k |-> "alt", rs |-> rs]
Opt(r)        == [k |-> "rep", r |-> r, lo |-> 0, hi |-> 1]
Rep(r, lo, hi) == [k |-> "rep", r |-> r, lo |-> lo, hi |-> hi]
Star(r)       == [k |-> "star", r |-> r, lo |-> 0]
Plus(r)       == [k |-> "star", r |-> r, lo |-> 1]

RECURSIVE Ends(_, _, _)
RECURSIVE SeqEnds(_, _, _, _)
RECURSIVE StarEnds(_, _, _, _)
RECURSIVE RepEnds(_, _, _, _, _)

\* The offsets at which a match of r that starts at offset i of s can end.
Ends(r, s, i) ==
  CASE r.k = "lit"  -> IF HasAt(s, i, r.str) THEN {i + Len(r.str)} ELSE {}
    [] r.k = "dot"  -> IF i < Len(s) /\ s[i + 1] \notin LineTerminator
                       THEN {i + 1} ELSE {}
    [] r.k = "cls"  -> IF i < Len(s) /\ s[i + 1] \in r.set THEN {i + 1} ELSE {}
    [] r.k = "ncls" -> IF i < Len(s) /\ s[i + 1] \notin r.set THEN {i + 1} ELSE {}
    [] r.k = "bol"  -> IF i = 0 THEN {0} ELSE {}
    [] r.k = "cat"  -> SeqEnds(r.rs, 1, s, {i})
    [] r.k = "alt"  -> UNION {Ends(r.rs[n], s, i) : n \in 1..Len(r.rs)}
    [] r.k = "rep"  -> RepEnds(r, s, {i}, 0, IF r.lo = 0 THEN {i} ELSE {})
    [] r.k = "star" -> LET all == StarEnds(r.r, s, {i}, {i})
                       IN  IF r.lo = 0 THEN all
                           ELSE UNION {Ends(r.r, s, j) : j \in all}

SeqEnds(rs, n, s, from) ==
  IF n > Len(rs) \/ from = {} THEN from
  ELSE SeqEnds(rs, n + 1, s, UNION {Ends(rs[n], s, i) : i \in from})

StarEnds(r, s, frontier, acc) ==
  LET new == (UNION {Ends(r, s, i) : i \in frontier}) \ acc
  IN  IF new = {} THEN acc ELSE StarEnds(r, s, new, acc \cup new)

RepEnds(r, s, from, n, acc) ==
  IF n >= r.hi \/ from = {} THEN acc
  ELSE LET next == UNION {Ends(r.r, s, i) : i \in from}
       IN  RepEnds(r, s, next, n + 1,
                   IF n + 1 >= r.lo THEN acc \cup next ELSE acc)

\* RegExp.prototype.test: the pattern matches somewhere in s.
Test(r, s) == \E i \in 0..Len(s) : Ends(r, s, i) # {}

(***************************************************************************)
(* encodeURIComponent                                                       *)
(***************************************************************************)
\* the characters encodeURIComponent leaves as they are
Unreserved == Lower \cup Upper \cup Digit \cup
              {"-", "_", ".", "!", "~", "*", "'", "(", ")"}

\* the UTF-8 escape of the other characters the model's strings use
PercentCode(c) ==
  CASE c = " "  -> <<"%", "2", "0">>
    [] c = "#"  -> <<"%", "2", "3">>
    [] c = "%"  -> <<"%", "2", "5">>
    [] c = "&"  -> <<"%", "2", "6">>
    [] c = "+"  -> <<"%", "2", "B">>
    [] c = ","  -> <<"%", "2", "C">>
    [] c = "/"  -> <<"%", "2", "F">>
    [] c = ":"  -> <<"%", "3", "A">>
    [] c = "="  -> <<"%", "3", "D">>
    [] c = "?"  -> <<"%", "3", "F">>
    [] c = "@"  -> <<"%", "4", "0">>
    [] c = "["  -> <<"%", "5", "B">>

encodeURIComponent(s) ==
  Concat([n \in 1..Len(s) |->
            IF s[n] \in Unreserved THEN <<s[n]>> ELSE PercentCode(s[n])])

(***************************************************************************)
(* The embed URL classifier                                                 *)
(***************************************************************************)
\* /(https?:\/\/)?(www.)?twitter.com\/([a-z,A-Z]*\/)*status\/([0-9])[?]?.*/
TwitterRegex ==
  Cat(<< Opt(Cat(<<Lit(<<"h", "t", "t", "p">>), Opt(Lit(<<"s">>)), Lit(<<":", "/", "/">>)>>)),
         Opt(Cat(<<Lit(<<"w", "w", "w">>), Dot>>)),
         Lit(<<"t", "w", "i", "t", "t", "e", "r">>), Dot, Lit(<<"c", "o", "m", "/">>),
         Star(Cat(<<Star(Cls(Lower \cup Upper \cup {","})), Lit(<<"/">>)>>)),
         Lit(<<"s", "t", "a", "t", "u", "s", "/">>), Cls(Digit), Opt(Cls({"?"})), Star(Dot) >>)

\* /^(https?):\/\/(t\.me|telegram\.me|telegram\.dog)\/([a-zA-Z0-9_]+)\/(\d+)/
TelegramRegex ==
  Cat(<< Bol, Lit(<<"h", "t", "t", "p">>), Opt(Lit(<<"s">>)), Lit(<<":", "/", "/">>),
         Alt(<<Lit(<<"t", ".", "m", "e">>), Lit(<<"t", "e", "l", "e", "g", "r", "a", "m", ".", "m", "e">>), Lit(<<"t", "e", "l", "e", "g", "r", "a", "m", ".", "d", "o", "g">>)>>),
         Lit(<<"/">>), Plus(Cls(WordChar)), Lit(<<"/">>), Plus(Cls(Digit)) >>)

\* /(https?:\/\/)?(www.)?(player.)?vimeo.com\/([a-z]*\/)*([0-9]{6,11})[?]?.*/
VimeoRegex ==
  Cat(<< Opt(Cat(<<Lit(<<"h", "t", "t", "p">>), Opt(Lit(<<"s">>)), Lit(<<":", "/", "/">>)>>)),
         Opt(Cat(<<Lit(<<"w", "w", "w">>), Dot>>)),
         Opt(Cat(<<Lit(<<"p", "l", "a", "y", "e", "r">>), Dot>>)),
         Lit(<<"v", "i", "m", "e", "o">>), Dot, Lit(<<"c", "o", "m", "/">>),
         Star(Cat(<<Star(Cls(Lower)), Lit(<<"/">>)>>)),
         Rep(Cls(Digit), 6, 11), Opt(Cls({"?"})), Star(Dot) >>)

\* /^.*(?:(?:youtu\.be\/|v\/|vi\/|u\/\w\/|embed\/)|(?:(?:watch)?\?v(?:i)?=|\&v(?:i)?=))([^#\&\?]+).*/
YoutubeRegex ==
  Cat(<< Bol, Star(Dot),
         Alt(<< Alt(<<Lit(<<"y", "o", "u", "t", "u", ".", "b", "e", "/">>), Lit(<<"v", "/">>), Lit(<<"v", "i", "/">>),
                      Cat(<<Lit(<<"u", "/">>), Cls(WordChar), Lit(<<"/">>)>>),
                      Lit(<<"e", "m", "b", "e", "d", "/">>)>>),
                Alt(<<Cat(<<Opt(Lit(<<"w", "a", "t", "c", "h">>)), Lit(<<"?", "v">>), Opt(Lit(<<"i">>)), Lit(<<"=">>)>>),
                      Cat(<<Lit(<<"&", "v">>), Opt(Lit(<<"i">>)), Lit(<<"=">>)>>)>>) >>),
         Plus(NotCls({"#", "&", "?"})), Star(Dot) >>)

IframeSites_youtubeSecond == <<"twitter", "youtube", "vimeo", "telegram">>

\* The keys of IFRAME_SRC_REGEX in the order "for (const site in ...)" visits
\* them: the order the object literal lists them in.
IframeSites == <<"twitter", "telegram", "vimeo", "youtube">>

IFRAME_SRC_REGEX(site) ==
  CASE site = "twitter"  -> TwitterRegex
    [] site = "telegram" -> TelegramRegex
    [] site = "vimeo"    -> VimeoRegex
    [] site = "youtube"  -> YoutubeRegex

SiteName(site) ==
  CASE site = "twitter"  -> <<"t", "w", "i", "t", "t", "e", "r">>
    [] site = "telegram" -> <<"t", "e", "l", "e", "g", "r", "a", "m">>
    [] site = "vimeo"    -> <<"v", "i", "m", "e", "o">>
    [] site = "youtube"  -> <<"y", "o", "u", "t", "u", "b", "e">>

\* the sites whose pattern matches url, in the order of the loop
MatchingSites(url) ==
  SelectSeq(IframeSites, LAMBDA site : Test(IFRAME_SRC_REGEX(site), url))

EmbedURL_verbatim(site, url) ==
  <<"/", "e", "m", "b", "e", "d", "/">> \o SiteName(site) \o <<"?", "u", "r", "l", "=">> \o url

EmbedURL(site, url) ==
  <<"/", "e", "m", "b", "e", "d", "/">> \o SiteName(site) \o <<"?", "u", "r", "l", "=">> \o encodeURIComponent(url)

transformToIframeURL_noReturn(url) ==
  LET hits == MatchingSites(url)
  IN  IF hits # << >> THEN EmbedURL(Head(hits), url) ELSE <<"undefined">>

transformToIframeURL(url) ==
  LET hits == MatchingSites(url)
  IN  IF hits # << >> THEN EmbedURL(Head(hits), url) ELSE url

(***************************************************************************)
(* String helpers of the JavaScript runtime                                 *)
(***************************************************************************)
LowerSeq == <<"a","b","c","d","e","f","g","h","i","j","k","l","m",
              "n","o","p","q","r","s","t","u","v","w","x","y","z">>
UpperSeq == <<"A","B","C","D","E","F","G","H","I","J","K","L","M",
              "N","O","P","Q","R","S","T","U","V","W","X","Y","Z">>

LowerChar(c) == IF c \in Upper
                THEN LowerSeq[CHOOSE n \in 1..Len(UpperSeq) : UpperSeq[n] = c]
                ELSE c
UpperChar(c) == IF c \in Lower
                THEN UpperSeq[CHOOSE n \in 1..Len(LowerSeq) : LowerSeq[n] = c]
                ELSE c
toLowerCase(s) == [n \in 1..Len(s) |-> LowerChar(s[n])]
toUpperCase(s) == [n \in 1..Len(s) |-> UpperChar(s[n])]

RECURSIVE trimStart(_)
trimStart(s) == IF s # << >> /\ Head(s) \in WhiteSpace THEN trimStart(Tail(s)) ELSE s
RECURSIVE trimEnd(_)
trimEnd(s) == IF s # << >> /\ s[Len(s)] \in WhiteSpace
              THEN trimEnd(SubSeq(s, 1, Len(s) - 1)) ELSE s
\* String.prototype.trim
trim(s) == trimEnd(trimStart(s))

\* s.replace(c, d) with a string pattern: only the first occurrence is replaced
replace(s, c, d) ==
  IF \E n \in 1..Len(s) : s[n] = c
  THEN LET first == CHOOSE n \in 1..Len(s) : s[n] = c /\ \A m \in 1..(n - 1) : s[m] # c
       IN  [n \in 1..Len(s) |-> IF n = first THEN d ELSE s[n]]
  ELSE s

(***************************************************************************)
(* Markup.  An HTML text is represented by the sequence of nodes a parser   *)
(* reads from it: text nodes and elements with a tag name, attributes (a    *)
(* sequence of <<name, value>> pairs) and child nodes.                      *)
(***************************************************************************)
Text(v) == [type |-> "text", tag |-> << >>, attrs |-> << >>, kids |-> << >>, value |-> v]
El(tag, attrs, kids) ==
  [type |-> "el", tag |-> tag, attrs |-> attrs, kids |-> kids, value |-> << >>]

IsText(n) == n.type = "text"

\* NamedNodeMap.getNamedItem: the attribute's value as Some(value), or None
getNamedItem(attrs, name) ==
  LET hits == SelectSeq(attrs, LAMBDA a : a[1] = name)
  IN  IF hits = << >> THEN None ELSE Some(Head(hits)[2])

RECURSIVE MergeText(_)
\* adjacent text nodes are one text node once the markup is written and read again
MergeText(nodes) ==
  IF Len(nodes) < 2 THEN nodes
  ELSE IF IsText(nodes[1]) /\ IsText(nodes[2])
       THEN MergeText(<<Text(nodes[1].value \o nodes[2].value)>> \o SubSeq(nodes, 3, Len(nodes)))
       ELSE <<nodes[1]>> \o MergeText(Tail(nodes))

\* content.trim() on the text a node sequence stands for: the white space before
\* the first tag and after the last one goes, and a text node left empty with it
TrimNodes(nodes) ==
  LET a == IF nodes # << >> /\ IsText(nodes[1])
           THEN (IF trimStart(nodes[1].value) = << >> THEN << >>
                 ELSE <<Text(trimStart(nodes[1].value))>>) \o Tail(nodes)
           ELSE nodes
      n == Len(a)
  IN  IF a # << >> /\ IsText(a[n])
      THEN SubSeq(a, 1, n - 1) \o
           (IF trimEnd(a[n].value) = << >> THEN << >> ELSE <<Text(trimEnd(a[n].value))>>)
      ELSE a

(***************************************************************************)
(* types.ts, and the sanitizer as HTML_SANITIZER_OPTIONS configures it      *)
(***************************************************************************)
SUPPORTED_TAGS ==
  { <<"a">>, <<"a", "s", "i", "d", "e">>, <<"b">>, <<"b", "l", "o", "c", "k", "q", "u", "o", "t", "e">>, <<"b", "r">>, <<"c", "o", "d", "e">>, <<"e", "m">>, <<"f", "i", "g", "c", "a", "p", "t", "i", "o", "n">>,
    <<"f", "i", "g", "u", "r", "e">>, <<"h", "3">>, <<"h", "4">>, <<"h", "r">>, <<"i">>, <<"i", "f", "r", "a", "m", "e">>, <<"i", "m", "g">>, <<"l", "i">>, <<"o", "l">>, <<"p">>,
    <<"p", "r", "e">>, <<"s">>, <<"s", "t", "r", "o", "n", "g">>, <<"u">>, <<"u", "l">>, <<"v", "i", "d", "e", "o">> }

transformTags_h5Kept(name) ==
  CASE name = <<"h", "1">>  -> <<"h", "3">>
    [] name = <<"h", "2">>  -> <<"h", "4">>
    [] name = <<"h", "6">>  -> <<"h", "4">>
    [] name = <<"d", "e", "l">> -> <<"s">>
    [] OTHER         -> name

transformTags_delKept(name) ==
  CASE name = <<"h", "1">>  -> <<"h", "3">>
    [] name = <<"h", "2">>  -> <<"h", "4">>
    [] name = <<"h", "5">>  -> <<"h", "3">>
    [] name = <<"h", "6">>  -> <<"h", "4">>
    [] OTHER         -> name

\* HTML_SANITIZER_OPTIONS.transformTags
transformTags(name) ==
  CASE name = <<"h", "1">>  -> <<"h", "3">>
    [] name = <<"h", "2">>  -> <<"h", "4">>
    [] name = <<"h", "5">>  -> <<"h", "3">>
    [] name = <<"h", "6">>  -> <<"h", "4">>
    [] name = <<"d", "e", "l">> -> <<"s">>
    [] OTHER         -> name

allowedTags_scriptToo == SUPPORTED_TAGS \cup { <<"s", "c", "r", "i", "p", "t">> }

\* HTML_SANITIZER_OPTIONS.allowedTags
allowedTags == SUPPORTED_TAGS

\* HTML_SANITIZER_OPTIONS.allowedAttributes
allowedAttributes(name) ==
  CASE name = <<"a">>      -> {"href"}
    [] name = <<"i", "m", "g">>    -> {"src"}
    [] name = <<"i", "f", "r", "a", "m", "e">> -> {"src"}
    [] name = <<"v", "i", "d", "e", "o">>  -> {"src"}
    [] OTHER            -> {}

\* The defaults of the sanitizer the options leave in place: the tags whose text
\* is dropped with them, the URL schemes allowed in href and src, the attributes
\* that may be empty.
nonTextTags == { <<"s", "c", "r", "i", "p", "t">>, <<"s", "t", "y", "l", "e">>, <<"t", "e", "x", "t", "a", "r", "e", "a">>, <<"o", "p", "t", "i", "o", "n">> }
allowedSchemes == { <<"h", "t", "t", "p">>, <<"h", "t", "t", "p", "s">>, <<"f", "t", "p">>, <<"m", "a", "i", "l", "t", "o">>, <<"t", "e", "l">> }
allowedSchemesAppliedToAttributes == {"href", "src", "cite"}
\* an attribute that is no boolean one is dropped when its value is empty
nonBooleanAttributes == {"href", "src"}
allowedEmptyAttributes == {"alt"}

SchemeRegex ==
  Cat(<< Cls(Lower \cup Upper),
         Star(Cls(Lower \cup Upper \cup Digit \cup {".", "-", "+"})), Lit(<<":">>) >>)

\* the sanitizer's test of a URL's scheme (on the value without its white space)
naughtyHref(href) ==
  LET h    == SelectSeq(href, LAMBDA c : c \notin WhiteSpace)
      ends == Ends(SchemeRegex, h, 0)
  IN  /\ ends # {}
      /\ toLowerCase(SubSeq(h, 1, (CHOOSE j \in ends : TRUE) - 1)) \notin allowedSchemes

sanitizeAttributes(name, attrs) ==
  SelectSeq(attrs, LAMBDA a :
    /\ a[1] \in allowedAttributes(name)
    /\ ~(a[2] = << >> /\ a[1] \notin allowedEmptyAttributes /\ a[1] \in nonBooleanAttributes)
    /\ ~(a[1] \in allowedSchemesAppliedToAttributes /\ naughtyHref(a[2])))

RECURSIVE sanitizeNodes(_)
\* The nodes of sanitizeHtml(html, HTML_SANITIZER_OPTIONS): a tag is renamed by
\* transformTags first; a tag that is then not allowed is dropped, its content
\* kept in its place unless it is a nonTextTag; the attributes not allowed for
\* the tag, or with a scheme not allowed, are dropped.
sanitizeNodes(nodes) ==
  IF nodes = << >> THEN << >>
  ELSE LET n    == Head(nodes)
           name == transformTags(toLowerCase(n.tag))
           this == IF IsText(n) THEN <<n>>
                   ELSE IF name \notin allowedTags
                        THEN IF name \in nonTextTags THEN << >> ELSE sanitizeNodes(n.kids)
                        ELSE <<El(name, sanitizeAttributes(name, n.attrs),
                                  sanitizeNodes(n.kids))>>
       IN  this \o sanitizeNodes(Tail(nodes))

sanitizeHtml(html) == sanitizeNodes(html)

(***************************************************************************)
(* The DOM the parser builds: DOM_PARSER.parseFromString(html, "text/html") *)
(***************************************************************************)
TEXT_NODE == 3

DomText(v) == [nodeType |-> TEXT_NODE, tagName |-> << >>, attributes |-> << >>,
               childNodes |-> << >>, nodeValue |-> v]
DomElement(tagName, attributes, childNodes) ==
  [nodeType |-> 1, tagName |-> tagName, attributes |-> attributes,
   childNodes |-> childNodes, nodeValue |-> << >>]

RECURSIVE ToDom(_)
\* text nodes next to each other are one node; tagName is in upper case
ToDom(nodes) ==
  LET merged == MergeText(nodes)
  IN  [n \in 1..Len(merged) |->
         IF IsText(merged[n]) THEN DomText(merged[n].value)
         ELSE DomElement(toUpperCase(merged[n].tag), merged[n].attrs,
                         ToDom(merged[n].kids))]

\* The document's body.  White space before the first content of the body is
\* not part of the body.
parseHtmlToDOM(html) ==
  LET merged == MergeText(html)
      body   == IF merged # << >> /\ IsText(merged[1])
                THEN (IF trimStart(merged[1].value) = << >> THEN << >>
                      ELSE <<Text(trimStart(merged[1].value))>>) \o Tail(merged)
                ELSE merged
  IN  [body |-> DomElement(<<"B", "O", "D", "Y">>, << >>, ToDom(body))]

(***************************************************************************)
(* Markdown.  A Markdown text is represented by its blocks (paragraphs,     *)
(* headings, fenced code, HTML blocks) and their inline content (text,      *)
(* strong emphasis, strikethrough, code spans), which marked renders.       *)
(***************************************************************************)
MdText(v)      == [md |-> "text", depth |-> 0, value |-> v, inl |-> << >>, html |-> << >>]
MdStrong(inl)  == [md |-> "strong", depth |-> 0, value |-> << >>, inl |-> inl, html |-> << >>]
MdDel(inl)     == [md |-> "del", depth |-> 0, value |-> << >>, inl |-> inl, html |-> << >>]
MdCodespan(v)  == [md |-> "codespan", depth |-> 0, value |-> v, inl |-> << >>, html |-> << >>]
MdParagraph(inl) == [md |-> "paragraph", depth |-> 0, value |-> << >>, inl |-> inl, html |-> << >>]
MdHeading(depth, inl) == [md |-> "heading", depth |-> depth, value |-> << >>, inl |-> inl, html |-> << >>]
MdCode(v)      == [md |-> "code", depth |-> 0, value |-> v, inl |-> << >>, html |-> << >>]
MdHtml(html)   == [md |-> "html", depth |-> 0, value |-> << >>, inl |-> << >>, html |-> html]
\* a code block written by indenting its line with four spaces
MdIndented(v)  == [md |-> "indented", depth |-> 0, value |-> v, inl |-> << >>, html |-> << >>]
\* a table of one column: a header cell and one body cell
MdTable(h, b)  == [md |-> "table", depth |-> 0, value |-> h, inl |-> << >>, html |-> <<Text(b)>>]

DigitSeq == <<"0","1","2","3","4","5","6","7","8","9">>

RECURSIVE RenderInline(_)
RenderInline(inl) ==
  [n \in 1..Len(inl) |->
     CASE inl[n].md = "text"     -> Text(inl[n].value)
       [] inl[n].md = "strong"   -> El(<<"s", "t", "r", "o", "n", "g">>, << >>, RenderInline(inl[n].inl))
       [] inl[n].md = "del"      -> El(<<"d", "e", "l">>, << >>, RenderInline(inl[n].inl))
       [] inl[n].md = "codespan" -> El(<<"c", "o", "d", "e">>, << >>, <<Text(inl[n].value)>>)]

\* what the renderer writes for one block; every block but an HTML block ends
\* with a line break, an HTML block followed by another with the blank line
RenderBlock(b, last) ==
  CASE b.md = "paragraph" -> <<El(<<"p">>, << >>, RenderInline(b.inl)), Text(<<"\n">>)>>
    [] b.md = "heading"   -> <<El(<<"h", DigitSeq[b.depth + 1]>>, << >>, RenderInline(b.inl)),
                               Text(<<"\n">>)>>
    [] b.md = "code"      -> <<El(<<"p", "r", "e">>, << >>, <<El(<<"c", "o", "d", "e">>, << >>, <<Text(b.value \o <<"\n">>)>>)>>),
                               Text(<<"\n">>)>>
    [] b.md = "indented"  -> <<El(<<"p", "r", "e">>, << >>, <<El(<<"c", "o", "d", "e">>, << >>, <<Text(b.value \o <<"\n">>)>>)>>),
                               Text(<<"\n">>)>>
    [] b.md = "table"     ->
         <<El(<<"t", "a", "b", "l", "e">>, << >>,
              <<Text(<<"\n">>),
                El(<<"t", "h", "e", "a", "d">>, << >>,
                   <<Text(<<"\n">>),
                     El(<<"t", "r">>, << >>, <<Text(<<"\n">>), El(<<"t", "h">>, << >>, <<Text(b.value)>>), Text(<<"\n">>)>>),
                     Text(<<"\n">>)>>),
                Text(<<"\n">>),
                El(<<"t", "b", "o", "d", "y">>, << >>,
                   <<El(<<"t", "r">>, << >>, <<Text(<<"\n">>), El(<<"t", "d">>, << >>, b.html), Text(<<"\n">>)>>),
                     Text(<<"\n">>)>>)>>),
           Text(<<"\n">>)>>
    [] b.md = "html"      -> b.html \o (IF last THEN << >> ELSE <<Text(<<"\n", "\n">>)>>)

\* marked.parse(content, { async: false })
markdownToHtml(blocks) ==
  MergeText(Concat([n \in 1..Len(blocks) |-> RenderBlock(blocks[n], n = Len(blocks))]))

\* content.trim() on a Markdown text: the white space before the first
\* paragraph's text and after the last one's; a first block that is an indented
\* code block loses its indentation, and is a paragraph
TrimBlocks(blocks) ==
  LET n == Len(blocks)
      a == IF n > 0 /\ blocks[1].md = "indented"
           THEN <<MdParagraph(<<MdText(trimStart(blocks[1].value))>>)>> \o Tail(blocks)
           ELSE IF n > 0 /\ blocks[1].md = "paragraph"
           THEN <<MdParagraph(
                    IF blocks[1].inl # << >> /\ blocks[1].inl[1].md = "text"
                    THEN <<MdText(trimStart(blocks[1].inl[1].value))>> \o Tail(blocks[1].inl)
                    ELSE blocks[1].inl)>> \o Tail(blocks)
           ELSE blocks
      k == IF n > 0 THEN Len(a[n].inl) ELSE 0
  IN  IF n > 0 /\ a[n].md = "paragraph" /\ k > 0 /\ a[n].inl[k].md = "text"
      THEN SubSeq(a, 1, n - 1) \o
           <<MdParagraph(SubSeq(a[n].inl, 1, k - 1) \o <<MdText(trimEnd(a[n].inl[k].value))>>)>>
      ELSE a

(***************************************************************************)
(* The content of a call: an HTML text or a Markdown text                   *)
(***************************************************************************)
HtmlContent(nodes) == [syntax |-> "html", html |-> nodes, md |-> << >>]
MdContent(blocks)  == [syntax |-> "md", html |-> << >>, md |-> blocks]

\* content.trim()
trimContent(content) ==
  IF content.syntax = "html" THEN HtmlContent(TrimNodes(content.html))
  ELSE MdContent(TrimBlocks(content.md))

(***************************************************************************)
(* domToNode                                                                *)
(***************************************************************************)
\* A Node of the Telegraph content format: a string, or a NodeElement with a
\* tag and optional attrs and children.
StringNode(v) ==
  [kind |-> "string", str |-> v, tag |-> << >>, attrs |-> None, children |-> None]
NodeElement(tag, attrs, children) ==
  [kind |-> "element", str |-> << >>, tag |-> tag, attrs |-> attrs, children |-> children]

KeepChild_emptyKept(childNode) ==
  ~(childNode.kind = "string" /\ childNode.str = <<"\n">>)

KeepChild_lineBreakKept(childNode) ==
  ~(childNode.kind = "string" /\ childNode.str = << >>)

\* if (childNode && childNode !== "\n"): an empty string is falsy
KeepChild(childNode) ==
  ~(childNode.kind = "string" /\ (childNode.str = << >> \/ childNode.str = <<"\n">>))

\* the value a text node converts to: inside a paragraph its first line break
\* becomes a space
domToNodeText(nodeValue, parentTagName) ==
  IF parentTagName = <<"P">> /\ nodeValue # << >>
  THEN replace(nodeValue, "\n", " ")
  ELSE nodeValue

domToNodeTag_keepCode(tag, parentTagName) == tag

domToNodeTag_anyCode(tag, parentTagName) ==
  IF tag = <<"c", "o", "d", "e">> THEN <<"p", "r", "e">> ELSE tag

\* nodeElement.tag: code directly inside pre becomes pre
domToNodeTag(tag, parentTagName) ==
  IF tag = <<"c", "o", "d", "e">> /\ parentTagName = <<"P", "R", "E">> THEN <<"p", "r", "e">> ELSE tag

domToNodeAttrs_anyTag(tag, attributes) ==
  LET href == getNamedItem(attributes, "href")
      src  == getNamedItem(attributes, "src")
  IN  IF href # None THEN Some(<< <<"href", href[1]>> >>)
      ELSE IF src # None THEN Some(<< <<"src", transformToIframeURL(src[1])>> >>)
      ELSE None

domToNodeAttrs_both(tag, attributes) ==
  LET href == getNamedItem(attributes, "href")
      src  == getNamedItem(attributes, "src")
      h    == IF href # None THEN << <<"href", href[1]>> >> ELSE << >>
      s    == IF src # None
              THEN << <<"src", IF tag = <<"i", "f", "r", "a", "m", "e">> THEN transformToIframeURL(src[1])
                               ELSE src[1]>> >>
              ELSE << >>
  IN  IF h \o s = << >> THEN None ELSE Some(h \o s)

\* nodeElement.attrs: href if there is one, else src, rewritten for an iframe
domToNodeAttrs(tag, attributes) ==
  LET href == getNamedItem(attributes, "href")
      src  == getNamedItem(attributes, "src")
  IN  IF href # None THEN Some(<< <<"href", href[1]>> >>)
      ELSE IF src # None
           THEN Some(<< <<"src", IF tag = <<"i", "f", "r", "a", "m", "e">>
                                 THEN transformToIframeURL(src[1])
                                 ELSE src[1]>> >>)
           ELSE None

pushKept_unshift(converted) ==
  LET kept == SelectSeq(converted, KeepChild)
  IN  [n \in 1..Len(kept) |-> kept[Len(kept) + 1 - n]]

\* the loop over element.childNodes: each converted child that is kept is
\* pushed, in the order of the child nodes
pushKept(converted) == SelectSeq(converted, KeepChild)

RECURSIVE domToNode(_, _)
\* parentTagName is element.parentElement?.tagName
domToNode(element, parentTagName) ==
  IF element.nodeType = TEXT_NODE
  THEN StringNode(domToNodeText(element.nodeValue, parentTagName))
  ELSE LET tag == toLowerCase(element.tagName)
       IN  NodeElement(
             domToNodeTag(tag, parentTagName),
             domToNodeAttrs(tag, element.attributes),
             IF Len(element.childNodes) > 0
             THEN Some(pushKept(
                    [n \in 1..Len(element.childNodes) |->
                       domToNode(element.childNodes[n], element.tagName)]))
             ELSE None)

(***************************************************************************)
(* parse                                                                    *)
(***************************************************************************)
PARSE_MODES == { <<"h", "t", "m", "l">>, <<"m", "a", "r", "k", "d", "o", "w", "n">> }

Returned(kind, str, nodes) == [kind |-> kind, str |-> str, nodes |-> nodes, error |-> "none"]
Thrown(error) == [kind |-> "throw", str |-> << >>, nodes |-> << >>, error |-> error]
NotReturned == [kind |-> "none", str |-> << >>, nodes |-> << >>, error |-> "none"]

\* the sanitized markup of the call, read into a DOM
domOf(content, parseMode) ==
  LET mode      == toLowerCase(parseMode)
      trimmed   == trimContent(content)
      html      == IF mode = <<"h", "t", "m", "l">> THEN trimmed.html ELSE markdownToHtml(trimmed.md)
      sanitized == sanitizeHtml(html)
  IN  parseHtmlToDOM(sanitized)

parse_noEmptyCheck(content, parseMode) ==
  LET mode == toLowerCase(parseMode)
      node == domToNode(domOf(content, parseMode).body, <<"H", "T", "M", "L">>)
  IN  IF mode \notin PARSE_MODES THEN Thrown("Invalid parse mode")
      ELSE IF node.kind = "string" THEN Returned("string", node.str, << >>)
      ELSE IF node.children = None THEN Returned("undefined", << >>, << >>)
      ELSE Returned("nodes", << >>, node.children[1])

parse_modeTrimmed(content, parseMode) ==
  LET mode == toLowerCase(trim(parseMode))
      node == domToNode(domOf(content, trim(parseMode)).body, <<"H", "T", "M", "L">>)
  IN  IF mode \notin PARSE_MODES THEN Thrown("Invalid parse mode")
      ELSE IF node.kind = "string" THEN Returned("string", node.str, << >>)
      ELSE IF node.children = None THEN Thrown("Empty content")
      ELSE Returned("nodes", << >>, node.children[1])

\* The two throws the model leaves out cannot happen: the parser returns a
\* document for every text, and the body is an element, never null.
parse(content, parseMode) ==
  LET mode == toLowerCase(parseMode)
      node == domToNode(domOf(content, parseMode).body, <<"H", "T", "M", "L">>)
  IN  IF mode \notin PARSE_MODES THEN Thrown("Invalid parse mode")
      ELSE IF node.kind = "string" THEN Returned("string", node.str, << >>)
      ELSE IF node.children = None THEN Thrown("Empty content")
      ELSE Returned("nodes", << >>, node.children[1])

(***************************************************************************)
(* The calls the model makes                                                *)
(***************************************************************************)
\* the nesting of elements in the inputs, the children of one element and the
\* blocks of a Markdown text
MaxDepth == 3
MaxKids == 3
MaxBlocks == 2

\* the parse modes of the calls: the two modes as typed and in another case,
\* and strings that are no mode
HtmlModes == { <<"H", "T", "M", "L">>, <<"h", "t", "m", "l">> }
MarkdownModes == { <<"M", "a", "r", "k", "d", "o", "w", "n">>, <<"M", "A", "R", "K", "D", "O", "W", "N">> }
OtherModes == { <<" ", "h", "t", "m", "l">>, <<"M", "a", "r", "k", "d", "o", "w", "n", "\n">>, <<"X", "M", "L">>, <<>> }
\* the contents of the calls made with a string that is no mode
OtherModeDocs ==
  { << >>, <<Text(<<"x">>)>>, <<Text(<<" ", "\n", " ">>)>>, <<El(<<"p">>, << >>, <<Text(<<"x">>)>>)>>,
    <<El(<<"s", "c", "r", "i", "p", "t">>, << >>, <<Text(<<"x">>)>>)>> }

PlainTexts == { <<"x">>, <<" ", "x", " ">>, <<"a", " ", "b">>, <<"a", "\n", "b", "\n", "c">>, <<"\n">>, <<" ", "\n", " ">> }

Leaves == { Text(<<"x">>), Text(<<"\n">>), Text(<<"a", "\n", "b", "\n", "c">>) }

\* Tags an HTML parser lets hold any content, and tags it lets hold text and
\* phrasing content only: the inputs are trees that reading the sanitized markup
\* again does not rearrange.
FlowHolders == { <<"b", "l", "o", "c", "k", "q", "u", "o", "t", "e">>, <<"d", "i", "v">> }
PhrasingTags == { <<"c", "o", "d", "e">>, <<"d", "e", "l">>, <<"b">>, <<"b", "r">>, <<"s", "c", "r", "i", "p", "t">> }
PhrasingHolders == { <<"p">>, <<"h", "1">>, <<"H", "2">>, <<"h", "5">>, <<"h", "6">>, <<"p", "r", "e">>, <<"c", "o", "d", "e">>, <<"d", "e", "l">>, <<"b">> }
VoidTags == { <<"b", "r">> }

CanHold(tag, kid) ==
  CASE tag \in FlowHolders     -> TRUE
    [] tag \in PhrasingHolders -> IsText(kid) \/ kid.tag \in PhrasingTags
    [] tag = <<"s", "c", "r", "i", "p", "t">>         -> IsText(kid)
    [] OTHER                   -> FALSE

RECURSIVE Chains(_)
\* an element in an element in ..., to a depth of d
Chains(d) ==
  IF d = 0 THEN Leaves
  ELSE LET below == Chains(d - 1)
       IN  below \cup
           { El(t, << >>, << >>) : t \in FlowHolders \cup PhrasingHolders \cup VoidTags \cup { <<"s", "c", "r", "i", "p", "t">> } }
           \cup
           { El(x[1], << >>, <<x[2]>>) :
               x \in { y \in (FlowHolders \cup PhrasingHolders \cup { <<"s", "c", "r", "i", "p", "t">> }) \X below :
                         CanHold(y[1], y[2]) } }

SiblingNodes ==
  { Text(<<"x">>), Text(<<"\n">>), El(<<"b">>, << >>, <<Text(<<"y">>)>>), El(<<"b", "r">>, << >>, << >>),
    El(<<"d", "e", "l">>, << >>, <<Text(<<"w">>)>>), El(<<"h", "1">>, << >>, <<Text(<<"z">>)>>) }

SeqsUpTo(S, n) == UNION { [1..k -> S] : k \in 0..n }

\* node sequences as a parser reads them: no two text nodes next to each other
Siblings ==
  { s \in SeqsUpTo(SiblingNodes, MaxKids) :
      \A k \in 1..(Len(s) - 1) : ~(IsText(s[k]) /\ IsText(s[k + 1])) }

Urls ==
  { <<"h", "t", "t", "p", "s", ":", "/", "/", "w", "w", "w", ".", "y", "o", "u", "t", "u", "b", "e", ".", "c", "o", "m", "/", "w", "a", "t", "c", "h", "?", "v", "=", "A", "B", "C", "1", "2", "3">>, <<"y", "o", "u", "t", "u", ".", "b", "e", "/", "A", "B", "C", "1", "2", "3">>,
    <<"h", "t", "t", "p", "s", ":", "/", "/", "v", "i", "m", "e", "o", ".", "c", "o", "m", "/", "1", "2", "3", "4", "5", "6", "7", "8", "9">>, <<"h", "t", "t", "p", "s", ":", "/", "/", "p", "l", "a", "y", "e", "r", ".", "v", "i", "m", "e", "o", ".", "c", "o", "m", "/", "v", "i", "d", "e", "o", "/", "1", "2", "3", "4", "5", "6", "7", "8", "9">>,
    <<"h", "t", "t", "p", "s", ":", "/", "/", "t", "w", "i", "t", "t", "e", "r", ".", "c", "o", "m", "/", "u", "/", "s", "t", "a", "t", "u", "s", "/", "1">>, <<"h", "t", "t", "p", "s", ":", "/", "/", "t", ".", "m", "e", "/", "c", "/", "4", "2">>,
    <<"h", "t", "t", "p", "s", ":", "/", "/", "t", ".", "m", "e", "/", "v", "/", "4", "2">>, <<"h", "t", "t", "p", "s", ":", "/", "/", "v", "i", "m", "e", "o", ".", "c", "o", "m", "/", "1", "2", "3", "4", "5", "6", "?", "v", "=", "a">>,
    <<"t", "w", "i", "t", "t", "e", "r", ".", "c", "o", "m", "/", "s", "t", "a", "t", "u", "s", "/", "1", "&", "v", "=", "a">>, <<"h", "t", "t", "p", "s", ":", "/", "/", "e", "x", "a", "m", "p", "l", "e", ".", "c", "o", "m", "/", "x", ".", "p", "n", "g">>,
    <<"t", "w", "i", "t", "t", "e", "r", ".", "c", "o", "m", "/", "s", "t", "a", "t", "u", "s", "/", "x">>, <<"j", "a", "v", "a", "s", "c", "r", "i", "p", "t", ":", "x">>, <<>> }

Media ==
  UNION { { El(<<"i", "f", "r", "a", "m", "e">>, << <<"src", u>> >>, << >>),
            El(<<"f", "i", "g", "u", "r", "e">>, << >>, <<El(<<"i", "f", "r", "a", "m", "e">>, << <<"src", u>> >>, << >>)>>),
            El(<<"i", "m", "g">>, << <<"src", u>> >>, << >>),
            El(<<"v", "i", "d", "e", "o">>, << <<"src", u>> >>, << >>),
            El(<<"a">>, << <<"href", u>> >>, <<Text(<<"x">>)>>),
            El(<<"a">>, << <<"href", u>>, <<"src", u>> >>, <<Text(<<"x">>)>>),
            El(<<"i", "f", "r", "a", "m", "e">>, << <<"href", u>>, <<"src", u>> >>, << >>),
            El(<<"p">>, << <<"src", u>> >>, <<Text(<<"x">>)>>) } : u \in Urls }

HtmlDocs ==
  { << >> } \cup { <<Text(t)>> : t \in PlainTexts }
  \cup { <<n>> : n \in Chains(MaxDepth) \ Leaves }
  \cup Siblings
  \cup UNION { { <<El(t, << >>, s)>> :
                   s \in { r \in Siblings : \A k \in 1..Len(r) : CanHold(t, r[k]) } } :
                 t \in { <<"p">>, <<"d", "e", "l">>, <<"b", "l", "o", "c", "k", "q", "u", "o", "t", "e">> } }
  \cup { <<n>> : n \in Media }

MdBlocks ==
  { MdParagraph(<<MdText(t)>>) : t \in { <<"x">>, <<" ", "x", " ">>, <<"a", "\n", "b", "\n", "c">> } }
  \cup { MdParagraph(<<MdStrong(<<MdText(<<"b">>)>>)>>),
         MdParagraph(<<MdText(<<"x">>), MdDel(<<MdText(<<"w">>), MdStrong(<<MdText(<<"y">>)>>)>>)>>),
         MdParagraph(<<MdCodespan(<<"c">>)>>),
         MdCode(<<"x">>), MdCode(<<>>), MdIndented(<<"x">>), MdTable(<<"a">>, <<"b">>),
         MdHtml(<<El(<<"p", "r", "e">>, << >>, <<El(<<"c", "o", "d", "e">>, << >>, <<Text(<<"x">>)>>)>>)>>),
         MdHtml(<<El(<<"d", "i", "v">>, << >>, << >>)>>),
         MdHtml(<<El(<<"s", "c", "r", "i", "p", "t">>, << >>, <<Text(<<"x">>)>>)>>) }
  \cup { MdHeading(d, <<MdText(<<"z">>)>>) : d \in 1..6 }

\* the texts of up to MaxBlocks blocks (two indented code blocks that follow
\* each other are one block)
MdDocs ==
  { d \in SeqsUpTo(MdBlocks, MaxBlocks) :
      \A n \in 1..(Len(d) - 1) : ~(d[n].md = "indented" /\ d[n + 1].md = "indented") }

Calls ==
  { <<HtmlContent(d), m>> : d \in HtmlDocs, m \in HtmlModes }
  \cup { <<MdContent(d), m>> : d \in MdDocs, m \in MarkdownModes }
  \cup { <<HtmlContent(d), m>> : d \in OtherModeDocs, m \in OtherModes }

(***************************************************************************)
(* The state machine: a call of parse with its arguments, and its outcome   *)
(***************************************************************************)
VARIABLES content, parseMode, pc, dom, ret,
          lastIndex, calls,
          token, errorHandler, inflight, log, sent, settled,
          file, apiUrl, response,
          config, call

parseVars  == <<content, parseMode, pc, dom, ret>>
moduleVars == <<lastIndex, calls>>
apiVars    == <<token, errorHandler, inflight, log, sent, settled>>
uploadVars == <<file, apiUrl, response>>
legacyVars == <<config, call>>

vars == <<parseVars, moduleVars, apiVars, uploadVars, legacyVars>>

\* a regular expression literal is created with lastIndex 0
NoMatchYet == [site \in {IframeSites[n] : n \in 1..Len(IframeSites)} |-> 0]

\* the module as loaded, before any call of parse
ModuleLoaded == lastIndex = NoMatchYet /\ calls = 0

\* what a call settles with: a value (undefined is None) or a rejection with
\* an error, how often the error handler was invoked in it, and with what
Resolved(value)  == [kind |-> "resolved", value |-> value, error |-> "none", handled |-> 0]
Rejected(error)  == [kind |-> "rejected", value |-> None, error |-> error, handled |-> 0]

\* the call that settled last: its method, how its POST ended, the handler
\* installed then, what it settled with, and this.token before it
SettledCall(method, outcome, handler, with, tokenBefore) ==
  [method |-> method, outcome |-> outcome, handler |-> handler, with |-> with,
   tokenBefore |-> tokenBefore]
NothingSettled == SettledCall("none", "none", "default", Resolved(None), None)

\* options.content of create and edit: a string, or an array of nodes
ContentString(v) == [kind |-> "string", str |-> v, nodes |-> << >>]
ContentArray(nodes) == [kind |-> "array", str |-> << >>, nodes |-> nodes]
NoContent == [kind |-> "none", str |-> << >>, nodes |-> << >>]

\* the request sent last: its method, the content its caller gave and the
\* content of its body
SentRequest(method, given, body) == [method |-> method, given |-> given, content |-> body]
NothingSent == SentRequest("none", NoContent, NoContent)

\* no Telegraph instance in use
NoInstance ==
  /\ token = None
  /\ errorHandler = "default"
  /\ inflight = {}
  /\ log = << >>
  /\ sent = NothingSent
  /\ settled = NothingSettled

\* a value read from JSON, as far as upload looks at it: its type and, of a
\* string, its text
JsValue(t, str) == [t |-> t, str |-> str]
JsUndefined == JsValue("undefined", << >>)

\* the parsed body of a response: what kind of value it is, its error member
\* and its member 0 with that one's src member (undefined when there is none)
Json(t, error, first, src) == [t |-> t, error |-> error, first |-> first, src |-> src]
NoJson == Json("none", JsUndefined, JsUndefined, JsUndefined)

\* a file source of upload: its kind and, of a string, a URL or a URL-like
\* object, its address
FileSource(kind, url) == [kind |-> kind, url |-> url]

\* what the POST of upload came to
Response(status, json) == [status |-> status, json |-> json]

\* no upload in progress
NoUpload ==
  /\ file = FileSource("none", << >>)
  /\ apiUrl = << >>
  /\ response = Response("none", NoJson)

\* the options the earlier Telegraph class is constructed with; a member that
\* is not given is the empty text here: the class only tests the members for
\* truth
TelegraphOptions(accessToken, shortName, authorName, authorUrl) ==
  [accessToken |-> accessToken, short_name |-> shortName,
   author_name |-> authorName, author_url |-> authorUrl]

\* a request of the earlier class: its method and the members of its body
LegacyRequest(method, accessToken, path, title, body) ==
  [method |-> method, access_token |-> accessToken, path |-> path,
   title |-> title, content |-> body]

\* the arguments of edit
EditOptions(path, title, given) == [path |-> path, title |-> title, content |-> given]
NoOptions == EditOptions("", "", NoContent)

\* the reply to a request: whether it succeeded, and the access_token and the
\* title of its result
LegacyReply(ok, accessToken, title) ==
  [ok |-> ok, access_token |-> accessToken, title |-> title]

\* a call of setupAccount or edit: its place among the calls, where it stands,
\* its arguments, the requests it has issued and the replies to them, and
\* config and token as they were when it began
LegacyCall(number, name, stage, options, issued, replies, configAt, tokenAt) ==
  [number |-> number, name |-> name, stage |-> stage, options |-> options,
   issued |-> issued, replies |-> replies, configAt |-> configAt, tokenAt |-> tokenAt]
NoCall == LegacyCall(0, "none", "idle", NoOptions, << >>, << >>,
                     TelegraphOptions("", "", "", ""), "")

\* no instance of the earlier class in use
NoLegacy == config = TelegraphOptions("", "", "", "") /\ call = NoCall

Init ==
  /\ \E c \in Calls : content = c[1] /\ parseMode = c[2]
  /\ pc = "call"
  /\ dom = None
  /\ ret = NotReturned
  /\ ModuleLoaded /\ NoInstance /\ NoUpload /\ NoLegacy

\* parse(content, parseMode), from the call to the return or the throw
Parse ==
  /\ pc = "call"
  /\ pc' = "done"
  /\ dom' = IF toLowerCase(parseMode) \in PARSE_MODES
            THEN Some(domOf(content, parseMode).body) ELSE None
  /\ ret' = parse(content, parseMode)
  /\ UNCHANGED <<content, parseMode, moduleVars, apiVars, uploadVars, legacyVars>>

Next == Parse

Spec == Init /\ [][Next]_vars

(***************************************************************************)
(* What the claims are stated with                                          *)
(***************************************************************************)
Done == pc = "done"
HtmlMode == toLowerCase(parseMode) = <<"h", "t", "m", "l">>
MarkdownMode == toLowerCase(parseMode) = <<"m", "a", "r", "k", "d", "o", "w", "n">>
ValidMode == HtmlMode \/ MarkdownMode

\* the markup the call converts, before it is trimmed and sanitized
Source == IF content.syntax = "html" THEN content.html ELSE markdownToHtml(content.md)

\* the nodes parse returned (none when it threw)
OutNodes == IF ret.kind = "nodes" THEN ret.nodes ELSE << >>

RECURSIVE SrcElements(_)
\* the elements of a markup, in document order
SrcElements(nodes) ==
  IF nodes = << >> THEN << >>
  ELSE (IF IsText(Head(nodes)) THEN << >>
        ELSE <<Head(nodes)>> \o SrcElements(Head(nodes).kids))
       \o SrcElements(Tail(nodes))

RECURSIVE DomElements(_)
DomElements(nodes) ==
  IF nodes = << >> THEN << >>
  ELSE (IF Head(nodes).nodeType = TEXT_NODE THEN << >>
        ELSE <<Head(nodes)>> \o DomElements(Head(nodes).childNodes))
       \o DomElements(Tail(nodes))

RECURSIVE OutElements(_)
OutElements(nodes) ==
  IF nodes = << >> THEN << >>
  ELSE (IF Head(nodes).kind = "string" THEN << >>
        ELSE <<Head(nodes)>> \o
             OutElements(IF Head(nodes).children = None THEN << >>
                         ELSE Head(nodes).children[1]))
       \o OutElements(Tail(nodes))

TagsOf(elements) == [n \in 1..Len(elements) |-> elements[n].tag]

\* the elements of the sanitized DOM and the elements returned: an element is
\* never dropped by the converter, so the n-th of one is the n-th of the other
DomOutPairs ==
  LET d == IF dom = None THEN << >> ELSE DomElements(dom[1].childNodes)
      o == OutElements(OutNodes)
  IN  [n \in 1..Min(Len(d), Len(o)) |-> <<d[n], o[n]>>]

\* every element of the DOM is an element returned, and the other way round
Aligned ==
  /\ Len(DomOutPairs) = Len(OutElements(OutNodes))
  /\ dom # None => Len(DomOutPairs) = Len(DomElements(dom[1].childNodes))

\* the src of a DOM element that has one and no href, as Some(src)
SrcOnly(element) ==
  IF getNamedItem(element.attributes, "href") = None
  THEN getNamedItem(element.attributes, "src") ELSE None

AttrsSrc(value) == Some(<< <<"src", value>> >>)

Families == {"twitter", "telegram", "vimeo", "youtube"}
Matches(site, url) == Test(IFRAME_SRC_REGEX(site), url)
MatchedFamilies(url) == { site \in Families : Matches(site, url) }

\* the first family of an order that url matches
FirstMatch(order, url) ==
  order[CHOOSE n \in 1..Len(order) :
          /\ Matches(order[n], url)
          /\ \A m \in 1..(n - 1) : ~Matches(order[m], url)]

\* C1: for a plain text with no markup, in either mode, parse returns the text,
\* trimmed, as a bare string.
PlainText ==
  IF content.syntax = "html"
  THEN IF Len(content.html) = 1 /\ IsText(content.html[1])
       THEN Some(content.html[1].value) ELSE None
  ELSE IF /\ Len(content.md) = 1 /\ content.md[1].md = "paragraph"
          /\ Len(content.md[1].inl) = 1 /\ content.md[1].inl[1].md = "text"
       THEN Some(content.md[1].inl[1].value) ELSE None

C1_PlainTextIsBareString ==
  (Done /\ ValidMode /\ PlainText # None /\ trim(PlainText[1]) # << >>)
    => ret = Returned("string", trim(PlainText[1]), << >>)

\* C2: in HTML mode every h1 and h5 of the input, at any depth, is an h3 of the
\* output and every h2 and h6 an h4, in the same order; no output element is an
\* h1, h2, h5 or h6.
HeadingTags == { <<"h", "1">>, <<"h", "2">>, <<"h", "3">>, <<"h", "4">>, <<"h", "5">>, <<"h", "6">> }
HeadingAs(tag) == IF tag \in { <<"h", "1">>, <<"h", "5">>, <<"h", "3">> } THEN <<"h", "3">> ELSE <<"h", "4">>

C2_HeadingsRemapped ==
  (Done /\ HtmlMode) =>
    LET src == SelectSeq(TagsOf(SrcElements(content.html)),
                         LAMBDA t : toLowerCase(t) \in HeadingTags)
        out == SelectSeq(TagsOf(OutElements(OutNodes)), LAMBDA t : t \in HeadingTags)
    IN  out = [n \in 1..Len(src) |-> HeadingAs(toLowerCase(src[n]))]

C2_Witness ==
  /\ Done /\ HtmlMode
  /\ content.html = <<El(<<"d", "i", "v">>, << >>, <<El(<<"b", "l", "o", "c", "k", "q", "u", "o", "t", "e">>, << >>,
                        <<El(<<"h", "5">>, << >>, <<Text(<<"x">>)>>)>>)>>)>>
  /\ ret.nodes = <<NodeElement(<<"b", "l", "o", "c", "k", "q", "u", "o", "t", "e">>, None,
                     Some(<<NodeElement(<<"h", "3">>, None, Some(<<StringNode(<<"x">>)>>))>>))>>

\* C3 as claimed: <pre><code>X</code></pre> converts to a single pre element
\* whose only child is the text X.
IsPreCode ==
  /\ content.syntax = "html" /\ Len(content.html) = 1
  /\ content.html[1].tag = <<"p", "r", "e">> /\ Len(content.html[1].kids) = 1
  /\ content.html[1].kids[1].tag = <<"c", "o", "d", "e">> /\ Len(content.html[1].kids[1].kids) = 1
  /\ IsText(content.html[1].kids[1].kids[1])
PreCodeText == content.html[1].kids[1].kids[1].value

C3_SinglePre ==
  (Done /\ HtmlMode /\ IsPreCode) =>
    ret.nodes = <<NodeElement(<<"p", "r", "e">>, None, Some(<<StringNode(PreCodeText)>>))>>

\* C3 as amended: <pre><code>X</code></pre> converts to a pre element whose only
\* child is a pre element (the code element, renamed) whose only child is the
\* text X, and which has an empty children sequence when X is a lone line break.
C3_PreInPre ==
  (Done /\ HtmlMode /\ IsPreCode) =>
    ret.nodes =
      <<NodeElement(<<"p", "r", "e">>, None,
          Some(<<NodeElement(<<"p", "r", "e">>, None,
                   Some(IF PreCodeText = <<"\n">> THEN << >>
                        ELSE <<StringNode(PreCodeText)>>))>>))>>

C3_Witness ==
  /\ Done /\ HtmlMode /\ IsPreCode /\ PreCodeText = <<"x">>
  /\ ret.kind = "nodes" /\ Len(ret.nodes) = 1 /\ ret.nodes[1].tag = <<"p", "r", "e">>

\* C4: in either mode every del element of the input is an s element of the
\* output with the same children in the same order, and no output element is a
\* del.  The children compared are those the converter keeps as they are: texts
\* other than a lone line break, and elements of tags it does not rename by
\* their place.
PlainTags == { <<"b">>, <<"s", "t", "r", "o", "n", "g">>, <<"b", "r">>, <<"d", "e", "l">>, <<"s">>, <<"e", "m">>, <<"i">>, <<"u">> }

RECURSIVE IsPlain(_)
IsPlain(n) ==
  IF IsText(n) THEN n.value # << >> /\ n.value # <<"\n">>
  ELSE /\ n.tag \in PlainTags /\ n.attrs = << >>
       /\ \A k \in 1..Len(n.kids) : IsPlain(n.kids[k])

RECURSIVE AsNode(_)
\* a plain node as the claim expects it in the output
AsNode(n) ==
  IF IsText(n) THEN StringNode(n.value)
  ELSE NodeElement(IF n.tag = <<"d", "e", "l">> THEN <<"s">> ELSE n.tag, None,
                   IF n.kids = << >> THEN None
                   ELSE Some([k \in 1..Len(n.kids) |-> AsNode(n.kids[k])]))

RECURSIVE VideoId(_)
VideoId(url) ==
  IF url = << >> \/ url[Len(url)] \in {"/", "="} THEN << >>
  ELSE VideoId(SubSeq(url, 1, Len(url) - 1)) \o <<url[Len(url)]>>

CanonicalEmbed(url) ==
  IF MatchedFamilies(url) = {"youtube"}
  THEN <<"/", "e", "m", "b", "e", "d", "/", "y", "o", "u", "t", "u", "b", "e", "?", "u", "r", "l", "=">> \o encodeURIComponent(<<"h", "t", "t", "p", "s", ":", "/", "/", "w", "w", "w", ".", "y", "o", "u", "t", "u", "b", "e", ".", "c", "o", "m", "/", "w", "a", "t", "c", "h", "?", "v", "=">> \o VideoId(url))
  ELSE <<"/", "e", "m", "b", "e", "d", "/", "v", "i", "m", "e", "o", "?", "u", "r", "l", "=">> \o encodeURIComponent(<<"h", "t", "t", "p", "s", ":", "/", "/", "v", "i", "m", "e", "o", ".", "c", "o", "m", "/">> \o VideoId(url))

C5_CanonicalVideoUrl ==
  (Done /\ ValidMode) =>
    \A n \in 1..Len(DomOutPairs) :
      LET d == DomOutPairs[n][1]
          o == DomOutPairs[n][2]
      IN  (/\ d.tagName = <<"I", "F", "R", "A", "M", "E">> /\ SrcOnly(d) # None
           /\ MatchedFamilies(SrcOnly(d)[1]) \in { {"youtube"}, {"vimeo"} })
            => o.attrs = AttrsSrc(CanonicalEmbed(SrcOnly(d)[1]))

\* C6: an iframe src classified as Twitter or as Telegram is rewritten to
\* /embed/twitter?url= or /embed/telegram?url= and the percent-encoding of the
\* whole src.
Classified(url) == FirstMatch(<<"twitter", "telegram", "vimeo", "youtube">>, url)

C6_TwitterTelegramVerbatim ==
  (Done /\ ValidMode) =>
    /\ Aligned
    /\ \A n \in 1..Len(DomOutPairs) :
         LET d == DomOutPairs[n][1]
             o == DomOutPairs[n][2]
             u == SrcOnly(d)[1]
         IN  (/\ d.tagName = <<"I", "F", "R", "A", "M", "E">> /\ SrcOnly(d) # None
              /\ MatchedFamilies(u) # {}
              /\ Classified(u) \in {"twitter", "telegram"})
               => o.attrs = AttrsSrc(IF Classified(u) = "twitter"
                                     THEN <<"/", "e", "m", "b", "e", "d", "/", "t", "w", "i", "t", "t", "e", "r", "?", "u", "r", "l", "=">> \o encodeURIComponent(u)
                                     ELSE <<"/", "e", "m", "b", "e", "d", "/", "t", "e", "l", "e", "g", "r", "a", "m", "?", "u", "r", "l", "=">> \o encodeURIComponent(u))

C6_Witness ==
  /\ Done /\ HtmlMode
  /\ content.html = <<El(<<"f", "i", "g", "u", "r", "e">>, << >>,
                        <<El(<<"i", "f", "r", "a", "m", "e">>, << <<"src", <<"h", "t", "t", "p", "s", ":", "/", "/", "t", "w", "i", "t", "t", "e", "r", ".", "c", "o", "m", "/", "u", "/", "s", "t", "a", "t", "u", "s", "/", "1">>>> >>, << >>)>>)>>
  /\ ret.nodes = <<NodeElement(<<"f", "i", "g", "u", "r", "e">>, None,
                     Some(<<NodeElement(<<"i", "f", "r", "a", "m", "e">>,
                              AttrsSrc(<<"/", "e", "m", "b", "e", "d", "/", "t", "w", "i", "t", "t", "e", "r", "?", "u", "r", "l", "=", "h", "t", "t", "p", "s", "%", "3", "A", "%", "2", "F", "%", "2", "F", "t", "w", "i", "t", "t", "e", "r", ".", "c", "o", "m", "%", "2", "F", "u", "%", "2", "F", "s", "t", "a", "t", "u", "s", "%", "2", "F", "1">>),
                              None)>>))>>

\* The rewrite of url as one of a family.
RewriteAs(site, url) ==
  <<"/", "e", "m", "b", "e", "d", "/">> \o SiteName(site) \o <<"?", "u", "r", "l", "=">> \o encodeURIComponent(url)

IframeRewrittenBy(order) ==
  Aligned /\ \A n \in 1..Len(DomOutPairs) :
    LET d == DomOutPairs[n][1]
        o == DomOutPairs[n][2]
        u == SrcOnly(d)[1]
    IN  (d.tagName = <<"I", "F", "R", "A", "M", "E">> /\ SrcOnly(d) # None /\ MatchedFamilies(u) # {})
          => o.attrs = AttrsSrc(RewriteAs(FirstMatch(order, u), u))

\* C7 as claimed: the families are tried in the order Twitter, YouTube, Vimeo,
\* Telegram and the first that matches decides the rewrite.
C7_OrderTwitterYoutubeVimeoTelegram ==
  (Done /\ ValidMode) => IframeRewrittenBy(<<"twitter", "youtube", "vimeo", "telegram">>)

\* C7 as amended: the families are tried in the order Twitter, Telegram, Vimeo,
\* YouTube (the order of the keys of IFRAME_SRC_REGEX) and the first that
\* matches decides the rewrite.
C7_OrderTwitterTelegramVimeoYoutube ==
  (Done /\ ValidMode) => IframeRewrittenBy(<<"twitter", "telegram", "vimeo", "youtube">>)

C7_Witness ==
  /\ Done /\ HtmlMode
  /\ content.html = <<El(<<"i", "f", "r", "a", "m", "e">>, << <<"src", <<"h", "t", "t", "p", "s", ":", "/", "/", "t", ".", "m", "e", "/", "v", "/", "4", "2">>>> >>, << >>)>>
  /\ MatchedFamilies(<<"h", "t", "t", "p", "s", ":", "/", "/", "t", ".", "m", "e", "/", "v", "/", "4", "2">>) = {"telegram", "youtube"}
  /\ ret.nodes = <<NodeElement(<<"i", "f", "r", "a", "m", "e">>,
                     AttrsSrc(<<"/", "e", "m", "b", "e", "d", "/", "t", "e", "l", "e", "g", "r", "a", "m", "?", "u", "r", "l", "=", "h", "t", "t", "p", "s", "%", "3", "A", "%", "2", "F", "%", "2", "F", "t", ".", "m", "e", "%", "2", "F", "v", "%", "2", "F", "4", "2">>), None)>>

\* C8: the classifier returns a src that matches no family as it is, whatever
\* the string (malformed and empty ones too), and the iframe that carries such a
\* src in the DOM has it as attrs.src: a string, never undefined or missing.
C8_UnmatchedSrcUnchanged ==
  (Done /\ ValidMode) =>
    /\ \A n \in 1..Len(SrcElements(Source)) :
         LET src == getNamedItem(SrcElements(Source)[n].attrs, "src")
         IN  (src # None /\ MatchedFamilies(src[1]) = {})
               => transformToIframeURL(src[1]) = src[1]
    /\ Aligned
    /\ \A n \in 1..Len(DomOutPairs) :
         LET d == DomOutPairs[n][1]
             o == DomOutPairs[n][2]
         IN  (/\ d.tagName = <<"I", "F", "R", "A", "M", "E">> /\ SrcOnly(d) # None
              /\ MatchedFamilies(SrcOnly(d)[1]) = {})
               => o.attrs = AttrsSrc(SrcOnly(d)[1])

C8_Witness ==
  /\ Done /\ HtmlMode
  /\ content.html = <<El(<<"i", "f", "r", "a", "m", "e">>, << <<"src", <<"t", "w", "i", "t", "t", "e", "r", ".", "c", "o", "m", "/", "s", "t", "a", "t", "u", "s", "/", "x">>>> >>, << >>)>>
  /\ ret.nodes = <<NodeElement(<<"i", "f", "r", "a", "m", "e">>, AttrsSrc(<<"t", "w", "i", "t", "t", "e", "r", ".", "c", "o", "m", "/", "s", "t", "a", "t", "u", "s", "/", "x">>), None)>>

\* C9: the src of an element that is not an iframe is attrs.src unchanged, also
\* when it matches a family of the classifier.
C9_OtherSrcUnchanged ==
  (Done /\ ValidMode) =>
    Aligned /\ \A n \in 1..Len(DomOutPairs) :
      LET d == DomOutPairs[n][1]
          o == DomOutPairs[n][2]
      IN  (d.tagName # <<"I", "F", "R", "A", "M", "E">> /\ SrcOnly(d) # None)
            => o.tag # <<"i", "f", "r", "a", "m", "e">> /\ o.attrs = AttrsSrc(SrcOnly(d)[1])

C9_Witness ==
  /\ Done /\ HtmlMode
  /\ content.html = <<El(<<"i", "m", "g">>, << <<"src", <<"y", "o", "u", "t", "u", ".", "b", "e", "/", "A", "B", "C", "1", "2", "3">>>> >>, << >>)>>
  /\ MatchedFamilies(<<"y", "o", "u", "t", "u", ".", "b", "e", "/", "A", "B", "C", "1", "2", "3">>) = {"youtube"}
  /\ ret.nodes = <<NodeElement(<<"i", "m", "g">>, AttrsSrc(<<"y", "o", "u", "t", "u", ".", "b", "e", "/", "A", "B", "C", "1", "2", "3">>), None)>>

\* C10: parse throws "Empty content" when nothing of the content is left after
\* sanitizing (no content, white space only, only tags that are dropped with
\* nothing left of them), and returns neither an empty sequence nor undefined
\* nor an empty string.
RECURSIVE Vanishes(_)
\* nothing is left of the nodes: white space, and elements of tags that are not
\* supported whose content is dropped with them or vanishes too
Vanishes(nodes) ==
  \A n \in 1..Len(nodes) :
    IF IsText(nodes[n]) THEN trim(nodes[n].value) = << >>
    ELSE LET tag == toLowerCase(nodes[n].tag)
         IN  /\ tag \notin SUPPORTED_TAGS \cup { <<"h", "1">>, <<"h", "2">>, <<"h", "5">>, <<"h", "6">>, <<"d", "e", "l">> }
             /\ tag \in { <<"s", "c", "r", "i", "p", "t">>, <<"s", "t", "y", "l", "e">>, <<"t", "e", "x", "t", "a", "r", "e", "a">>, <<"o", "p", "t", "i", "o", "n">> } \/ Vanishes(nodes[n].kids)

C10_EmptyContent ==
  (Done /\ ValidMode) =>
    /\ Vanishes(Source) <=> ret = Thrown("Empty content")
    /\ ~Vanishes(Source) => ret.kind = "nodes" /\ ret.nodes # << >>
    /\ ret.kind = "string" => ret.str # << >>

C10_Witness ==
  /\ Done /\ HtmlMode
  /\ content.html = <<El(<<"d", "i", "v">>, << >>, <<El(<<"s", "c", "r", "i", "p", "t">>, << >>, <<Text(<<"x">>)>>)>>)>>
  /\ ret = Thrown("Empty content")

\* C11 as claimed: parse throws "Invalid parse mode" exactly when the mode,
\* trimmed of surrounding white space and lowercased, is neither html nor
\* markdown, whatever the content.
C11_InvalidModeAfterTrim ==
  Done => (ret = Thrown("Invalid parse mode")
             <=> toLowerCase(trim(parseMode)) \notin { <<"h", "t", "m", "l">>, <<"m", "a", "r", "k", "d", "o", "w", "n">> })

\* C11 as amended: parse throws "Invalid parse mode" exactly when the mode,
\* lowercased and not trimmed, is neither html nor markdown; the mode is tested
\* before the content is looked at, so the throw is the same whatever the
\* content, the empty one included, and no DOM is built.
C11_InvalidModeLowercased ==
  Done => /\ ret = Thrown("Invalid parse mode")
               <=> toLowerCase(parseMode) \notin { <<"h", "t", "m", "l">>, <<"m", "a", "r", "k", "d", "o", "w", "n">> }
          /\ ret = Thrown("Invalid parse mode") => dom = None

C11_Witness ==
  /\ Done /\ parseMode = <<" ", "h", "t", "m", "l">> /\ content.html = <<Text(<<"x">>)>>
  /\ ret = Thrown("Invalid parse mode")

\* C12: in either mode every element of the tree parse returns, at any depth,
\* has one of the 24 supported tags; script, body, h1 and del are none of them.
C12_OnlySupportedTags ==
  /\ Cardinality(SUPPORTED_TAGS) = 24
  /\ { <<"s", "c", "r", "i", "p", "t">>, <<"b", "o", "d", "y">>, <<"h", "1">>, <<"d", "e", "l">> } \cap SUPPORTED_TAGS = {}
  /\ (Done /\ ValidMode) =>
       \A n \in 1..Len(OutElements(OutNodes)) : OutElements(OutNodes)[n].tag \in SUPPORTED_TAGS

C12_Witness ==
  /\ Done /\ HtmlMode
  /\ content.html = <<El(<<"b", "l", "o", "c", "k", "q", "u", "o", "t", "e">>, << >>, <<El(<<"s", "c", "r", "i", "p", "t">>, << >>, <<Text(<<"x">>)>>)>>)>>
  /\ ret.nodes = <<NodeElement(<<"b", "l", "o", "c", "k", "q", "u", "o", "t", "e">>, None, None)>>

\* C13: the tree parse returns, written as HTML and parsed again in HTML mode,
\* is the same tree: same tags, same attrs, same children in the same order.
RECURSIVE toHtml(_)
\* the markup of a sequence of nodes: a string as a text, a NodeElement as an
\* element with its attrs as attributes and its children as content
toHtml(nodes) ==
  [n \in 1..Len(nodes) |->
     IF nodes[n].kind = "string" THEN Text(nodes[n].str)
     ELSE El(nodes[n].tag,
             IF nodes[n].attrs = None THEN << >> ELSE nodes[n].attrs[1],
             IF nodes[n].children = None THEN << >> ELSE toHtml(nodes[n].children[1]))]

RECURSIVE Structure(_)
\* a sequence of nodes with no children and an empty sequence of children taken
\* as the same
Structure(nodes) ==
  [n \in 1..Len(nodes) |->
     IF nodes[n].kind = "string" THEN nodes[n]
     ELSE NodeElement(nodes[n].tag, nodes[n].attrs,
                      IF nodes[n].children = None THEN Some(<< >>)
                      ELSE Some(Structure(nodes[n].children[1])))]

C13_RoundTrip ==
  (Done /\ ret.kind = "nodes") =>
    LET again == parse(HtmlContent(toHtml(ret.nodes)), <<"H", "T", "M", "L">>)
    IN  again.kind = "nodes" /\ Structure(again.nodes) = Structure(ret.nodes)

\* C14 as claimed: a Markdown text m parsed in Markdown mode gives what the
\* rendering of m gives in HTML mode, the same result or the same throw.
C14_MarkdownIsHtmlOfRendering ==
  (Done /\ MarkdownMode) =>
    ret = parse(HtmlContent(markdownToHtml(content.md)), <<"H", "T", "M", "L">>)

\* C14 as amended: a Markdown text m parsed in Markdown mode gives what the
\* rendering of the trimmed m gives in HTML mode, provided the rendering, once
\* sanitized, does not end with a text that ends in white space other than a
\* text that is a lone line break (HTML mode trims the rendering, Markdown mode
\* does not).
RenderedTrimmed == markdownToHtml(trimContent(content).md)

EndsPlainly(nodes) ==
  \/ nodes = << >>
  \/ ~IsText(nodes[Len(nodes)])
  \/ nodes[Len(nodes)].value = <<"\n">>
  \/ trimEnd(nodes[Len(nodes)].value) = nodes[Len(nodes)].value

C14_MarkdownIsHtmlOfTrimmedRendering ==
  (Done /\ MarkdownMode /\ EndsPlainly(MergeText(sanitizeHtml(RenderedTrimmed)))) =>
    ret = parse(HtmlContent(RenderedTrimmed), <<"H", "T", "M", "L">>)

C14_Witness ==
  /\ Done /\ MarkdownMode
  /\ content.md = <<MdIndented(<<"x">>)>>
  /\ ret.nodes = <<NodeElement(<<"p">>, None, Some(<<StringNode(<<"x">>)>>))>>
  /\ ret # parse(HtmlContent(markdownToHtml(content.md)), <<"H", "T", "M", "L">>)

(***************************************************************************)
(* The Telegraph class: an instance, its requests and their responses       *)
(***************************************************************************)
MaxRequests == 2

\* the access tokens the server hands out, in the order it hands them out
Tokens == <<"t1", "t2", "t3", "t4">>

\* new Telegraph(token): the instances here are constructed with a token
ConstructorTokens == { Some("t0") }

\* the error handlers an instance can have: the one it is constructed with
\* throws what it is given; one installed with catch returns nothing, or
\* returns an object of its own
CustomHandlers == { "undefined", "value" }
HandlerValue   == [access_token |-> None]

\* await this.errorHandler(err): the handler is invoked once with err
CallErrorHandler(handler, err) ==
  [ (CASE handler = "default"   -> Rejected(err)
       [] handler = "undefined" -> Resolved(None)
       [] handler = "value"     -> Resolved(Some(HandlerValue)))
    EXCEPT !.handled = 1, !.error = err ]

\* how the POST of a request can end: fetch rejects, the status is not OK,
\* the body is not JSON, the JSON says ok: false, the JSON says ok: true
Outcomes == { "fetchThrows", "notOk", "notJson", "error", "result" }

\* the earlier request (part_006:31-44): every failure is thrown
request_throws(outcome, result, handler) ==
  CASE outcome = "fetchThrows" -> Rejected("fetch error")
    [] outcome = "notOk"       -> Rejected("Request failed: statusText")
    [] outcome = "notJson"     -> Rejected("SyntaxError")
    [] outcome = "error"       -> Rejected("json.error")
    [] outcome = "result"      -> Resolved(Some(result))

\* request(), from the end of the fetch on: json.result, or what the handler
\* makes of the failure; response.json() rejecting is not handed to the handler
request(outcome, result, handler) ==
  CASE outcome = "fetchThrows" -> CallErrorHandler(handler, "fetch error")
    [] outcome = "notOk"       -> CallErrorHandler(handler, "Request failed: statusText")
    [] outcome = "notJson"     -> Rejected("SyntaxError")
    [] outcome = "error"       -> CallErrorHandler(handler, "json.error")
    [] outcome = "result"      -> Resolved(Some(result))

revokeToken_optionalChain(creds, save, tok) ==
  IF save THEN (IF creds # None THEN creds[1].access_token ELSE None) ELSE tok

revokeToken_saveIgnored(creds, save, tok) ==
  IF creds # None THEN creds[1].access_token ELSE tok

\* revokeToken, after its request: this.token when it returns
revokeToken(creds, save, tok) ==
  IF creds # None /\ save THEN creds[1].access_token ELSE tok

\* revokeToken(), revokeToken({ save: true }), revokeToken({ save: false })
RevokeOptions == { "default", "true", "false" }
SaveOf(options) == options # "false"

CreateContents ==
  { ContentString(<<"x">>), ContentString(<<>>),
    ContentArray(<< >>),
    ContentArray(<<StringNode(<<"x">>), NodeElement(<<"p">>, None, Some(<<StringNode(<<"y">>)>>))>>) }

create_sentAsGiven(given) == given

\* the content edit sends: options is spread into the body as it is
edit(given) == given

\* the content create sends
create(given) ==
  IF given.kind = "string" THEN ContentArray(<<StringNode(given.str)>>) ELSE given

\* an entry of the log: a request sent (with the access_token of its body) or
\* settled (with the access_token of its result), and this.token after it
Event(ev, method, save, ok, accessToken, instToken) ==
  [ev |-> ev, method |-> method, save |-> save, ok |-> ok,
   access_token |-> accessToken, token |-> instToken]

Sends   == SelectSeq(log, LAMBDA e : e.ev = "send")
Settles == SelectSeq(log, LAMBDA e : e.ev = "settle")

InitApi ==
  /\ token \in ConstructorTokens
  /\ errorHandler = "default"
  /\ inflight = {}
  /\ log = <<Event("new", "constructor", FALSE, TRUE, None, token)>>
  /\ sent = NothingSent
  /\ settled = NothingSettled
  /\ content = HtmlContent(<< >>)
  /\ parseMode = <<"H", "T", "M", "L">>
  /\ pc = "api"
  /\ dom = None
  /\ ret = NotReturned
  /\ ModuleLoaded /\ NoUpload /\ NoLegacy

\* catch(errorHandler)
Catch ==
  /\ \E h \in CustomHandlers : h # errorHandler /\ errorHandler' = h
  /\ UNCHANGED <<token, inflight, log, sent, settled, parseVars, moduleVars, uploadVars, legacyVars>>

\* request(method, body) up to its fetch: the body is built from this.token as
\* it is at the call
SendRequest(method, save, given, body) ==
  /\ Len(Sends) < MaxRequests
  /\ log' = Append(log, Event("send", method, save, FALSE, token, token))
  /\ sent' = SentRequest(method, given, body)
  /\ inflight' = inflight \cup { [id |-> Len(log) + 1, method |-> method, save |-> save] }
  /\ UNCHANGED <<token, errorHandler, settled, parseVars, moduleVars, uploadVars, legacyVars>>

RevokeToken ==
  \E options \in RevokeOptions :
    SendRequest("revokeAccessToken", SaveOf(options), NoContent, NoContent)

Create ==
  \E given \in CreateContents : SendRequest("createPage", FALSE, given, create(given))

Edit ==
  \E given \in CreateContents : SendRequest("editPage", FALSE, given, edit(given))

\* the response of a request arrives and the call settles; a revokeAccessToken
\* that succeeds returns the next token of the server
Settle ==
  \E r \in inflight, outcome \in Outcomes :
    LET fresh   == Tokens[Len(Settles) + 1]
        result  == [access_token |-> IF r.method = "revokeAccessToken"
                                     THEN Some(fresh) ELSE None]
        with    == request(outcome, result, errorHandler)
        tokenAfter == IF r.method = "revokeAccessToken" /\ with.kind = "resolved"
                      THEN revokeToken(with.value, r.save, token)
                      ELSE token
    IN  /\ token' = tokenAfter
        /\ inflight' = inflight \ {r}
        /\ settled' = SettledCall(r.method, outcome, errorHandler, with, token)
        /\ log' = Append(log, Event("settle", r.method, r.save, outcome = "result",
                                    IF outcome = "result" THEN result.access_token ELSE None,
                                    tokenAfter))
        /\ UNCHANGED <<errorHandler, sent, parseVars, moduleVars, uploadVars, legacyVars>>

NextApi == Catch \/ RevokeToken \/ Create \/ Edit \/ Settle

SpecApi == InitApi /\ [][NextApi]_vars

\* a revokeToken that settled with the server's new token
Revoked(i) ==
  log[i].ev = "settle" /\ log[i].method = "revokeAccessToken" /\ log[i].ok

\* a revokeToken asked to save that settled between the entries i and j
SavingRevokeBetween(i, j) ==
  \E k \in (i + 1)..(j - 1) :
    log[k].ev = "settle" /\ log[k].method = "revokeAccessToken" /\ log[k].save

\* C15: when a revokeToken with save true (the default) succeeds, the token of
\* the instance is the access_token returned, and every request sent after it
\* (and before another saving revokeToken settles) carries that token; when one
\* with save false succeeds, the token of the instance is what it was.
C15_RevokedTokenSaved ==
  \A i \in DOMAIN log :
    Revoked(i) =>
      IF log[i].save
      THEN /\ log[i].token = log[i].access_token
           /\ \A j \in DOMAIN log :
                (j > i /\ log[j].ev = "send" /\ ~SavingRevokeBetween(i, j))
                  => log[j].access_token = log[i].access_token
      ELSE log[i].token = log[i - 1].token

C15_Witness ==
  /\ Len(log) = 5
  /\ log[1].token = Some("t0")
  /\ log[2].ev = "send" /\ log[2].method = "revokeAccessToken" /\ log[2].save
  /\ log[3].ev = "settle" /\ log[3].ok /\ log[3].access_token = Some("t1")
  /\ log[4].ev = "send" /\ log[4].method = "createPage"
  /\ log[4].access_token = Some("t1")
  /\ log[5].ev = "settle" /\ log[5].ok
  /\ token = Some("t1")

\* C16: create sends its content as an array: a string as the array of that one
\* string, an array as it is.
C16_CreateSendsArray ==
  sent.method = "createPage" =>
    /\ sent.content.kind = "array"
    /\ sent.given.kind = "string" => sent.content.nodes = <<StringNode(sent.given.str)>>
    /\ sent.given.kind = "array" => sent.content = sent.given

C16_Witness ==
  /\ sent.method = "createPage"
  /\ sent.given = ContentString(<<"x">>)
  /\ sent.content = ContentArray(<<StringNode(<<"x">>)>>)
  /\ Len(Sends) = 2
  /\ log[2].method = "createPage"

\* the failures of a request that request hands to the error handler, and the
\* error it hands over
Failed == settled.outcome \in {"fetchThrows", "notOk", "error"}
ErrorOf(outcome) ==
  CASE outcome = "fetchThrows" -> "fetch error"
    [] outcome = "notOk"       -> "Request failed: statusText"
    [] outcome = "error"       -> "json.error"

\* C25: when a call fails (the fetch throws, the response is not OK, or the
\* envelope has ok false) the handler installed at that time is invoked exactly
\* once with the error, and the call settles with what the handler does: the
\* default handler rethrows the error, an installed one's return value is the
\* value of the call. When a call succeeds the handler is not invoked and the
\* call returns the result of the envelope.
C25_HandlerInvokedOnce ==
  /\ Failed =>
       /\ settled.with.handled = 1
       /\ settled.with.error = ErrorOf(settled.outcome)
       /\ settled.handler = "default"
            => settled.with.kind = "rejected"
       /\ settled.handler = "undefined"
            => settled.with.kind = "resolved" /\ settled.with.value = None
       /\ settled.handler = "value"
            => settled.with.kind = "resolved" /\ settled.with.value = Some(HandlerValue)
  /\ settled.outcome = "result" =>
       /\ settled.with.handled = 0
       /\ settled.with.kind = "resolved"
       /\ settled.with.value # None
       /\ settled.with.value[1].access_token = Settles[Len(Settles)].access_token

C25_Witness ==
  /\ Len(log) = 3
  /\ log[2].ev = "send" /\ log[2].method = "createPage"
  /\ settled.method = "createPage"
  /\ settled.outcome = "notOk"
  /\ settled.handler = "undefined"
  /\ settled.with.handled = 1
  /\ settled.with.kind = "resolved"

\* C27: edit sends its content as create does: a string as the array of that
\* one string, an array as it is.
C27_EditSendsArray ==
  sent.method = "editPage" => sent.content = create(sent.given)

API_URL == <<"h", "t", "t", "p", "s", ":", "/", "/", "t", "e", "l", "e", "g", "r", "a", ".", "p", "h", "/", "u", "p", "l", "o", "a", "d">>

\* the offset (1-based) of the first character of s from n on that is in set,
\* or Len(s) + 1
RECURSIVE IndexIn(_, _, _)
IndexIn(s, set, n) ==
  IF n > Len(s) \/ s[n] \in set THEN n ELSE IndexIn(s, set, n + 1)

\* the schemes whose URLs have a host, and their default ports
SpecialSchemes == { <<"h", "t", "t", "p">>, <<"h", "t", "t", "p", "s">>, <<"w", "s">>, <<"w", "s", "s">>, <<"f", "t", "p">> }
DefaultPort(scheme) ==
  CASE scheme \in { <<"h", "t", "t", "p">>, <<"w", "s">> }   -> <<"8", "0">>
    [] scheme \in { <<"h", "t", "t", "p", "s">>, <<"w", "s", "s">> } -> <<"4", "4", "3">>
    [] OTHER                           -> <<"2", "1">>

\* the characters that end the slashes after the scheme
AfterSlashes == Lower \cup Upper \cup Digit \cup {":", "?", "#", ".", "-", "_"}

\* new URL(url), for the absolute URLs without credentials the model uses:
\* the scheme in lower case, the host in lower case, the port unless it is the
\* default one; parsed is FALSE where the constructor throws a TypeError
ParseURL(url) ==
  LET colon     == IndexIn(url, {":"}, 1)
      scheme    == toLowerCase(SubSeq(url, 1, colon - 1))
      hasScheme == /\ 1 < colon /\ colon <= Len(url)
                   /\ url[1] \in Lower \cup Upper
                   /\ \A n \in 1..(colon - 1) :
                        url[n] \in Lower \cup Upper \cup Digit \cup {"+", "-", "."}
      start     == IndexIn(url, AfterSlashes, colon + 1)
      stop      == IndexIn(url, {"/", "?", "#"}, start)
      authority == SubSeq(url, start, stop - 1)
      portAt    == IndexIn(authority, {":"}, 1)
      host      == toLowerCase(SubSeq(authority, 1, portAt - 1))
      port      == SubSeq(authority, portAt + 1, Len(authority))
  IN  IF ~hasScheme THEN [parsed |-> FALSE, scheme |-> << >>, host |-> << >>, port |-> << >>]
      ELSE IF scheme \notin SpecialSchemes
      THEN [parsed |-> TRUE, scheme |-> scheme, host |-> << >>, port |-> << >>]
      ELSE [parsed |-> host # << >>, scheme |-> scheme, host |-> host,
            port |-> IF port = DefaultPort(scheme) THEN << >> ELSE port]

\* URL.canParse(url)
canParse(url) == ParseURL(url).parsed

\* new URL(url).origin: "null" for a scheme without a host
origin(url) ==
  LET u == ParseURL(url)
  IN  IF u.scheme \notin SpecialSchemes THEN <<"n", "u", "l", "l">>
      ELSE u.scheme \o <<":", "/", "/">> \o u.host \o
           (IF u.port = << >> THEN << >> ELSE <<":">> \o u.port)

\* how the download of a file given by its address can end: fetch rejects, the
\* response has no body, the response has one
Downloads == { "rejects", "noBody", "blob" }

\* fetchFile(url): "blob", or the error thrown
fetchFile(download) ==
  CASE download = "rejects" -> "fetch failed"
    [] download = "noBody"  -> "Download failed, no response body"
    [] download = "blob"    -> "blob"

\* toBlob(file): "blob", or the error thrown
toBlob(source, download) ==
  CASE source.kind = "string" ->
         IF ~canParse(source.url) THEN "Expected URL as file source"
         ELSE IF ~HasAt(source.url, 0, <<"h", "t", "t", "p", ":">>) /\ ~HasAt(source.url, 0, <<"h", "t", "t", "p", "s", ":">>)
         THEN "URL protocol must be HTTP/HTTPS"
         ELSE fetchFile(download)
    [] source.kind = "Blob" -> "blob"
    [] source.kind = "Response" -> "blob"
    [] source.kind = "Response without body" -> "No response body!"
    [] source.kind \in {"URL", "URLLike"} -> fetchFile(download)
    [] OTHER -> "blob"

IsObject(value) == value.t \in {"object", "array"}

uploadResult_errorOnly(originOfApi, result) ==
  IF ~IsObject(result) THEN Thrown("TypeError")
  ELSE IF result.error.t \notin {"undefined", "null"}
  THEN Thrown("File upload failed")
  ELSE IF result.first.t \in {"undefined", "null"} THEN Thrown("TypeError")
  ELSE Returned("string", originOfApi \o result.src.str, << >>)

\* upload, from the parsed body of the response on: the in operator throws a
\* TypeError on a value that is not an object
uploadResult(originOfApi, result) ==
  IF ~IsObject(result) THEN Thrown("TypeError")
  ELSE IF result.error.t \notin {"undefined", "null"}
  THEN Thrown("File upload failed")
  ELSE IF result.first.t \in {"undefined", "null"} THEN Thrown("File upload failed")
  ELSE IF ~IsObject(result.first) THEN Thrown("TypeError")
  ELSE IF result.src.t # "string" THEN Thrown("File upload failed")
  ELSE Returned("string", originOfApi \o result.src.str, << >>)

\* upload, from the response of the POST on
uploadResponse(originOfApi, posted) ==
  CASE posted.status = "rejected" -> Thrown("fetch failed")
    [] posted.status = "notOk"    -> Thrown("File upload failed")
    [] posted.status = "ok"       ->
         IF posted.json.t = "notJson" THEN Thrown("SyntaxError")
         ELSE uploadResult(originOfApi, posted.json)

FileUrls ==
  { <<"h", "t", "t", "p", "s", ":", "/", "/", "e", "x", "a", "m", "p", "l", "e", ".", "c", "o", "m", "/", "a", ".", "p", "n", "g">>, <<"H", "T", "T", "P", "S", ":", "/", "/", "e", "x", "a", "m", "p", "l", "e", ".", "c", "o", "m", "/", "a", ".", "p", "n", "g">>,
    <<"f", "t", "p", ":", "/", "/", "e", "x", "a", "m", "p", "l", "e", ".", "c", "o", "m", "/", "a", ".", "p", "n", "g">>, <<"a", ".", "p", "n", "g">> }

FileSources ==
  { FileSource("string", u) : u \in FileUrls }
  \cup { FileSource("URLLike", <<"h", "t", "t", "p", "s", ":", "/", "/", "e", "x", "a", "m", "p", "l", "e", ".", "c", "o", "m", "/", "a", ".", "p", "n", "g">>),
         FileSource("URL", <<"h", "t", "t", "p", "s", ":", "/", "/", "e", "x", "a", "m", "p", "l", "e", ".", "c", "o", "m", "/", "a", ".", "p", "n", "g">>) }
  \cup { FileSource(k, << >>) :
           k \in {"Blob", "Response", "Response without body", "Uint8Array",
                  "ReadableStream", "Iterable"} }

ApiUrls ==
  { API_URL, <<"H", "T", "T", "P", "S", ":", "/", "/", "G", "r", "a", "p", "h", ".", "o", "r", "g", ":", "4", "4", "3", "/", "u", "p", "l", "o", "a", "d">>, <<"h", "t", "t", "p", ":", "/", "/", "l", "o", "c", "a", "l", "h", "o", "s", "t", ":", "8", "0", "8", "0", "/", "u", "p", "l", "o", "a", "d">>,
    <<"l", "o", "c", "a", "l", "h", "o", "s", "t", ":", "8", "0", "8", "0", "/", "u", "p", "l", "o", "a", "d">>, <<"t", "e", "l", "e", "g", "r", "a", ".", "p", "h", "/", "u", "p", "l", "o", "a", "d">> }

\* the error member of a body: none, null, a text, the empty text, false
ErrorMembers ==
  { JsUndefined, JsValue("null", << >>), JsValue("string", <<"E">>),
    JsValue("string", << >>), JsValue("boolean", << >>) }

\* the src member of the first element: none, null, a number, a path, the
\* empty text
SrcMembers ==
  { JsUndefined, JsValue("null", << >>), JsValue("number", << >>),
    JsValue("string", <<"/", "f", "i", "l", "e", "/", "x", ".", "p", "n", "g">>), JsValue("string", << >>) }

\* the bodies a response can have: an array (which has no error member), an
\* object with members error and 0, a value that is not an object, no JSON
Jsons ==
  { Json(t, e, JsValue("object", << >>), s) :
      t \in {"array", "object"}, e \in ErrorMembers, s \in SrcMembers }
  \cup { Json(t, e, f, JsUndefined) :
           t \in {"array", "object"}, e \in ErrorMembers,
           f \in { JsUndefined, JsValue("null", << >>), JsValue("number", << >>),
                   JsValue("string", <<"/", "f", "i", "l", "e", "/", "x", ".", "p", "n", "g">>) } }
  \cup { Json(t, JsUndefined, JsUndefined, JsUndefined) :
           t \in {"null", "number", "string", "boolean", "notJson"} }

JsonBodies == { j \in Jsons : j.t = "array" => j.error = JsUndefined }

\* fetch rejects an address that is not HTTP or HTTPS
Responses(url) ==
  { Response("rejected", NoJson) }
  \cup IF ParseURL(url).scheme \in { <<"h", "t", "t", "p">>, <<"h", "t", "t", "p", "s">> }
       THEN { Response("notOk", NoJson) } \cup { Response("ok", j) : j \in JsonBodies }
       ELSE {}

InitUpload ==
  /\ file \in FileSources
  /\ apiUrl \in ApiUrls
  /\ response = Response("none", NoJson)
  /\ pc = "upload"
  /\ ret = NotReturned
  /\ content = HtmlContent(<< >>)
  /\ parseMode = <<"H", "T", "M", "L">>
  /\ dom = None
  /\ ModuleLoaded /\ NoInstance /\ NoLegacy

\* upload up to the POST: new URL(apiUrl), then await toBlob(file)
UploadToBlob ==
  /\ pc = "upload"
  /\ \E download \in Downloads :
       LET blob == toBlob(file, download)
       IN  IF ~canParse(apiUrl)
           THEN pc' = "done" /\ ret' = Thrown("TypeError")
           ELSE IF blob # "blob"
           THEN pc' = "done" /\ ret' = Thrown(blob)
           ELSE pc' = "post" /\ ret' = ret
  /\ UNCHANGED <<content, parseMode, dom, moduleVars, apiVars, uploadVars, legacyVars>>

\* await fetch(apiUrl, ...): the server answers, or the request fails
UploadPost ==
  /\ pc = "post"
  /\ response' \in Responses(apiUrl)
  /\ pc' = "responded"
  /\ UNCHANGED <<content, parseMode, dom, ret, file, apiUrl, moduleVars, apiVars, legacyVars>>

\* upload after the POST, to its return or throw
UploadReturn ==
  /\ pc = "responded"
  /\ ret' = uploadResponse(origin(apiUrl), response)
  /\ pc' = "done"
  /\ UNCHANGED <<content, parseMode, dom, moduleVars, apiVars, uploadVars, legacyVars>>

NextUpload == UploadToBlob \/ UploadPost \/ UploadReturn

SpecUpload == InitUpload /\ [][NextUpload]_vars

\* the response is OK, carries no error, and its first element has a string src
GoodResponse ==
  /\ response.status = "ok"
  /\ response.json.t \in {"array", "object"}
  /\ response.json.error.t \in {"undefined", "null"}
  /\ response.json.first.t = "object"
  /\ response.json.src.t = "string"

\* C17: upload returns the origin of the API URL followed by the src of the
\* first element of the response when the POST response is OK, carries no error
\* (none, or null) and its first element has a string src; in every other case,
\* the POST never made included, it throws and returns nothing.
C17_UploadReturnsOriginSrc ==
  pc = "done" =>
    IF GoodResponse
    THEN ret = Returned("string", origin(apiUrl) \o response.json.src.str, << >>)
    ELSE ret.kind = "throw"

C17_Witness ==
  /\ pc = "done"
  /\ apiUrl = <<"H", "T", "T", "P", "S", ":", "/", "/", "G", "r", "a", "p", "h", ".", "o", "r", "g", ":", "4", "4", "3", "/", "u", "p", "l", "o", "a", "d">>
  /\ file.kind = "Blob"
  /\ response.json.t = "array"
  /\ response.json.src = JsValue("string", <<"/", "f", "i", "l", "e", "/", "x", ".", "p", "n", "g">>)
  /\ ret = Returned("string", <<"h", "t", "t", "p", "s", ":", "/", "/", "g", "r", "a", "p", "h", ".", "o", "r", "g", "/", "f", "i", "l", "e", "/", "x", ".", "p", "n", "g">>, << >>)

(***************************************************************************)
(* The children sequences of the tree                                       *)
(***************************************************************************)
\* the conversions of the child nodes of a DOM element that are neither the
\* empty text nor a lone line break, in the order of the child nodes
ConvertedKept(element) ==
  LET kept == { n \in 1..Len(element.childNodes) :
                  LET c == domToNode(element.childNodes[n], element.tagName)
                  IN  ~(c.kind = "string" /\ c.str \in { << >>, <<"\n">> }) }
      nth[k \in 0..Len(element.childNodes)] ==
        IF k = 0 THEN 0
        ELSE CHOOSE n \in kept : n > nth[k - 1] /\ \A m \in kept : m > nth[k - 1] => n <= m
  IN  [k \in 1..Cardinality(kept) |->
         domToNode(element.childNodes[nth[k]], element.tagName)]

ChildrenOf(node) == IF node.children = None THEN << >> ELSE node.children[1]

\* C21: the children of every output element, and the nodes returned for the
\* body, are the conversions of the source child nodes that are not dropped, in
\* the order of the source: none reordered, none duplicated, texts and elements
\* in their relative order.
C21_ChildrenInDocumentOrder ==
  (Done /\ ret.kind = "nodes") =>
    /\ Aligned
    /\ ret.nodes = ConvertedKept(dom[1])
    /\ \A n \in DOMAIN DomOutPairs :
         ChildrenOf(DomOutPairs[n][2]) = ConvertedKept(DomOutPairs[n][1])

C21_Witness ==
  /\ Done /\ ret.kind = "nodes"
  /\ \E n \in DOMAIN DomOutPairs :
       LET d == DomOutPairs[n][1]
           o == DomOutPairs[n][2]
       IN  /\ Len(d.childNodes) = 3
           /\ d.childNodes[1].nodeType = TEXT_NODE
           /\ d.childNodes[1].nodeValue = <<"\n">>
           /\ d.childNodes[2].nodeType # TEXT_NODE
           /\ d.childNodes[3].nodeType = TEXT_NODE
           /\ Len(ChildrenOf(o)) = 2
           /\ ChildrenOf(o)[1].kind = "element"
           /\ ChildrenOf(o)[2].kind = "string"

RECURSIVE TextsIn(_)
\* the strings of every children sequence of a tree, at any depth
TextsIn(nodes) ==
  IF nodes = << >> THEN {}
  ELSE (IF Head(nodes).kind = "string" THEN {Head(nodes).str}
        ELSE TextsIn(ChildrenOf(Head(nodes))))
       \cup TextsIn(Tail(nodes))

Converted == pc = "converted"

\* C22: no children sequence of the tree, at any depth, holds an empty string:
\* a text node with an empty value is dropped, not appended.
C22_NoEmptyString ==
  Converted => << >> \notin TextsIn(ret.nodes)

C22_Witness ==
  /\ Converted
  /\ dom[1].childNodes = <<DomElement(<<"B", "L", "O", "C", "K", "Q", "U", "O", "T", "E">>, << >>,
                                      <<DomText(<< >>), DomText(<<"x">>)>>)>>
  /\ ret.nodes = <<NodeElement(<<"b", "l", "o", "c", "k", "q", "u", "o", "t", "e">>, None, Some(<<StringNode(<<"x">>)>>))>>

\* C23: no element of the output has an empty children sequence: an element
\* without source children, or with all of them dropped, has no children field.
C23_NoEmptyChildren ==
  Done => \A n \in DOMAIN OutElements(OutNodes) :
            OutElements(OutNodes)[n].children # Some(<< >>)

\* C24: given an element whose tag is outside the supported vocabulary, the
\* converter signals a fault and returns no node with that tag.
C24_UnsupportedTagFaults ==
  (Converted /\ \E n \in DOMAIN DomElements(dom[1].childNodes) :
                  toLowerCase(DomElements(dom[1].childNodes)[n].tagName)
                    \notin SUPPORTED_TAGS)
    => ret.kind = "throw"

\* C30: no text that is a direct child of a p element of the output holds a
\* line break.
C30_NoLineBreakInParagraph ==
  Done => \A n \in DOMAIN OutElements(OutNodes) :
            LET o == OutElements(OutNodes)[n]
            IN  o.tag = <<"p">> =>
                  \A k \in DOMAIN ChildrenOf(o) :
                    ChildrenOf(o)[k].kind = "string"
                      => \A i \in DOMAIN ChildrenOf(o)[k].str :
                           ChildrenOf(o)[k].str[i] # "\n"

(***************************************************************************)
(* The earlier Telegraph class: setupAccount, and edit with an optional     *)
(* title                                                                    *)
(***************************************************************************)
MaxLegacyCalls == 2

\* the configurations the constructor accepts: it throws when neither an
\* access token nor a short name is given
LegacyConfigs ==
  { c \in { TelegraphOptions(a, s, n, u) :
              a \in {"", "t0"}, s \in {"", "s"}, n \in {"", "n"}, u \in {"", "u"} } :
      ~(c.accessToken = "" /\ c.short_name = "") }

setupAccountRequest_tokenOnly(options, accessToken) ==
  IF options.accessToken # "" THEN "editAccountInfo"
  ELSE IF accessToken = "" /\ options.short_name # "" THEN "createAccount"
  ELSE "getAccountInfo"

\* the request setupAccount issues
setupAccountRequest(options, accessToken) ==
  IF /\ options.accessToken # ""
     /\ (options.author_name # "" \/ options.author_url # "" \/ options.short_name # "")
  THEN "editAccountInfo"
  ELSE IF options.accessToken = "" /\ accessToken = "" /\ options.short_name # ""
  THEN "createAccount"
  ELSE "getAccountInfo"

editNeedsTitle_never(options) == FALSE

\* edit: if (!options.title)
editNeedsTitle(options) == options.title = ""

\* edit: a string content is sent as the array of that string
editContent(given) ==
  IF given.kind = "string" THEN ContentArray(<<StringNode(given.str)>>) ELSE given

\* the arguments edit is called with
EditCalls ==
  { EditOptions(path, title, given) :
      path \in {"Page-12-24", "Other-01-01"}, title \in {"", "T"},
      given \in { ContentString(<<"x">>), ContentArray(<<StringNode(<<"y">>)>>) } }

\* the server: a method that acts on an account fails without an access token;
\* any request can fail; createAccount returns a new token, getPage the title
\* of the page
NeedsToken == {"editAccountInfo", "getAccountInfo", "editPage"}
LegacyReplies(req, number) ==
  { LegacyReply(FALSE, "", "") }
  \cup IF req.method \in NeedsToken /\ req.access_token = "" THEN {}
       ELSE { LegacyReply(TRUE,
                          IF req.method = "createAccount" THEN Tokens[number] ELSE "",
                          IF req.method = "getPage" THEN "Title of " \o req.path
                          ELSE req.title) }

InitLegacy ==
  /\ config \in LegacyConfigs
  /\ token = config.accessToken
  /\ call = NoCall
  /\ errorHandler = "default"
  /\ inflight = {}
  /\ log = << >>
  /\ sent = NothingSent
  /\ settled = NothingSettled
  /\ content = HtmlContent(<< >>)
  /\ parseMode = <<"H", "T", "M", "L">>
  /\ pc = "legacy"
  /\ dom = None
  /\ ret = NotReturned
  /\ ModuleLoaded /\ NoUpload

\* the caller awaits each call before it makes the next
CanCall == call.stage \in {"idle", "done", "failed"} /\ call.number < MaxLegacyCalls

\* set token(value), between two calls: the caller awaits each call
SetToken ==
  /\ call.stage \in {"idle", "done", "failed"}
  /\ \E value \in {"", "t9"} :
       /\ value # token
       /\ token' = value
       /\ config' = [config EXCEPT !.accessToken = value]
  /\ call' = [call EXCEPT !.stage = "idle"]
  /\ UNCHANGED <<errorHandler, inflight, log, sent, settled,
                 parseVars, moduleVars, uploadVars>>

\* setupAccount, up to the fetch of its request
SetupAccount ==
  /\ CanCall
  /\ call' = LegacyCall(call.number + 1, "setupAccount", "waiting", NoOptions,
                        <<LegacyRequest(setupAccountRequest(config, token), token,
                                        "", "", NoContent)>>,
                        << >>, config, token)
  /\ UNCHANGED <<config, apiVars, parseVars, moduleVars, uploadVars>>

\* setupAccount, from the reply on: after createAccount the token is set
SetupAccountSettle ==
  /\ call.name = "setupAccount" /\ call.stage = "waiting"
  /\ \E reply \in LegacyReplies(call.issued[1], call.number) :
       /\ call' = [call EXCEPT !.stage = IF reply.ok THEN "done" ELSE "failed",
                               !.replies = Append(@, reply)]
       /\ IF reply.ok /\ call.issued[1].method = "createAccount"
          THEN /\ token' = reply.access_token
               /\ config' = [config EXCEPT !.accessToken = reply.access_token]
          ELSE UNCHANGED <<token, config>>
  /\ UNCHANGED <<errorHandler, inflight, log, sent, settled,
                 parseVars, moduleVars, uploadVars>>

\* edit, up to its first fetch: of getPage when no title is given, else of
\* editPage
EditPage ==
  /\ CanCall
  /\ \E options \in EditCalls :
       call' = LegacyCall(call.number + 1, "edit",
                          IF editNeedsTitle(options) THEN "getting" ELSE "waiting",
                          options,
                          <<IF editNeedsTitle(options)
                            THEN LegacyRequest("getPage", token, options.path, "", NoContent)
                            ELSE LegacyRequest("editPage", token, options.path,
                                               options.title, editContent(options.content))>>,
                          << >>, config, token)
  /\ UNCHANGED <<config, apiVars, parseVars, moduleVars, uploadVars>>

\* edit, from the reply to getPage on: the title is taken from the page and
\* editPage is fetched; a failed getPage is thrown
EditGotPage ==
  /\ call.name = "edit" /\ call.stage = "getting"
  /\ \E reply \in LegacyReplies(call.issued[1], call.number) :
       call' = [call EXCEPT
                  !.replies = Append(@, reply),
                  !.stage = IF reply.ok THEN "waiting" ELSE "failed",
                  !.issued = IF reply.ok
                             THEN Append(@, LegacyRequest("editPage", token,
                                                          call.options.path, reply.title,
                                                          editContent(call.options.content)))
                             ELSE @]
  /\ UNCHANGED <<config, apiVars, parseVars, moduleVars, uploadVars>>

\* edit, from the reply to editPage on
EditSettle ==
  /\ call.name = "edit" /\ call.stage = "waiting"
  /\ \E reply \in LegacyReplies(call.issued[Len(call.issued)], call.number) :
       call' = [call EXCEPT !.stage = IF reply.ok THEN "done" ELSE "failed",
                            !.replies = Append(@, reply)]
  /\ UNCHANGED <<config, apiVars, parseVars, moduleVars, uploadVars>>

NextLegacy ==
  SetToken \/ SetupAccount \/ SetupAccountSettle \/ EditPage \/ EditGotPage \/ EditSettle

SpecLegacy == InitLegacy /\ [][NextLegacy]_vars

\* the kind of request the claim gives for a configuration
ConfiguredRequest ==
  IF /\ call.configAt.accessToken # ""
     /\ \E m \in {call.configAt.short_name, call.configAt.author_name,
                  call.configAt.author_url} : m # ""
  THEN "editAccountInfo"
  ELSE IF call.configAt.accessToken = "" /\ call.tokenAt = ""
          /\ call.configAt.short_name # ""
  THEN "createAccount"
  ELSE "getAccountInfo"

\* C26: setupAccount issues one request, of the kind its configuration gives:
\* editAccountInfo with an access token and one of short_name, author_name,
\* author_url; createAccount with no access token configured or set and a
\* short_name, and then the token is the access_token returned; getAccountInfo
\* otherwise. After a successful setupAccount the token is not empty.
C26_SetupAccountRequest ==
  call.name = "setupAccount" =>
    /\ Len(call.issued) = 1
    /\ call.issued[1].method = ConfiguredRequest
    /\ call.stage = "done" =>
         /\ token # ""
         /\ call.issued[1].method = "createAccount"
              => token = call.replies[1].access_token

C26_Witness ==
  /\ call.name = "setupAccount" /\ call.stage = "done"
  /\ call.configAt = TelegraphOptions("", "s", "n", "")
  /\ call.issued[1].method = "createAccount"
  /\ call.replies[1].access_token = "t1"
  /\ token = "t1"

\* C29: edit without a title first issues getPage for the same path, and
\* editPage only after getPage succeeded, with the title of the page fetched;
\* when getPage fails no editPage is issued. edit with a title issues editPage
\* only.
C29_EditFetchesTitle ==
  call.name = "edit" =>
    IF call.options.title = ""
    THEN /\ call.issued[1].method = "getPage"
         /\ call.issued[1].path = call.options.path
         /\ Len(call.issued) = 2 <=> (call.replies # << >> /\ call.replies[1].ok)
         /\ Len(call.issued) = 2 =>
              /\ call.issued[2].method = "editPage"
              /\ call.issued[2].path = call.options.path
              /\ call.issued[2].title = call.replies[1].title
         /\ Len(call.issued) <= 2
    ELSE /\ Len(call.issued) = 1
         /\ call.issued[1].method = "editPage"
         /\ call.issued[1].title = call.options.title

C29_Witness ==
  /\ call.name = "edit" /\ call.stage = "done"
  /\ call.options.title = "" /\ call.options.path = "Page-12-24"
  /\ Len(call.issued) = 2
  /\ call.issued[1].method = "getPage"
  /\ call.issued[2].method = "editPage"
  /\ call.issued[2].title = "Title of Page-12-24"

RECURSIVE DomParents(_, _)
\* the tagName of the parent of each element of a DOM, in document order
DomParents(nodes, parentTagName) ==
  IF nodes = << >> THEN << >>
  ELSE (IF Head(nodes).nodeType = TEXT_NODE THEN << >>
        ELSE <<parentTagName>> \o DomParents(Head(nodes).childNodes, Head(nodes).tagName))
       \o DomParents(Tail(nodes), parentTagName)

\* C19: a code element of the DOM is a pre in the output exactly when its
\* parent is a pre: with any other parent (also one inside a pre) it stays code,
\* and no other element changes its tag to pre.
C19_CodeIsPreInsidePre ==
  (Done /\ ValidMode) =>
    /\ Aligned
    /\ \A n \in 1..Len(DomOutPairs) :
         LET d == DomOutPairs[n][1]
             o == DomOutPairs[n][2]
             parent == DomParents(dom[1].childNodes, <<"B", "O", "D", "Y">>)[n]
         IN  /\ d.tagName = <<"C", "O", "D", "E">> => o.tag = (IF parent = <<"P", "R", "E">> THEN <<"p", "r", "e">> ELSE <<"c", "o", "d", "e">>)
             /\ d.tagName # <<"C", "O", "D", "E">> => o.tag = toLowerCase(d.tagName)

C19_Witness ==
  /\ Done /\ HtmlMode
  /\ content.html = <<El(<<"p", "r", "e">>, << >>, <<El(<<"b">>, << >>, <<El(<<"c", "o", "d", "e">>, << >>, <<Text(<<"x">>)>>)>>)>>)>>
  /\ ret.nodes = <<NodeElement(<<"p", "r", "e">>, None,
                     Some(<<NodeElement(<<"b">>, None,
                              Some(<<NodeElement(<<"c", "o", "d", "e">>, None, Some(<<StringNode(<<"x">>)>>))>>))>>))>>

(***************************************************************************)
(* The tree converter alone: domToNode given the body of any DOM, also one  *)
(* the sanitizer would not let through                                       *)
(***************************************************************************)
ConvertUrls == { <<>>, <<"h", "t", "t", "p", "s", ":", "/", "/", "t", ".", "m", "e", "/", "c", "/", "4", "2">>, <<"y", "o", "u", "t", "u", ".", "b", "e", "/", "A", "B", "C", "1", "2", "3">>, <<"h", "t", "t", "p", "s", ":", "/", "/", "e", "x", "a", "m", "p", "l", "e", ".", "c", "o", "m", "/", "x", ".", "p", "n", "g">> }

ConvertAttributes ==
  { << >> }
  \cup { << <<"href", u>> >> : u \in ConvertUrls }
  \cup { << <<"src", u>> >> : u \in ConvertUrls }
  \cup { << <<"href", u>>, <<"src", v>> >> : u \in ConvertUrls, v \in ConvertUrls }
  \cup { << <<"src", v>>, <<"href", u>> >> : u \in ConvertUrls, v \in ConvertUrls }

ConvertElements ==
  { DomElement(t, a, k) :
      t \in { <<"A">>, <<"I", "M", "G">>, <<"I", "F", "R", "A", "M", "E">>, <<"V", "I", "D", "E", "O">>, <<"C", "O", "D", "E">> },
      a \in ConvertAttributes,
      k \in { << >>, <<DomText(<<"x">>)>> } }

\* child nodes a parser never builds from markup are among them: an empty
\* text, and elements the sanitizer would have removed
ConvertChildNodes ==
  LET one == { DomText(<< >>), DomText(<<"x">>), DomText(<<"\n">>), DomText(<<"a", "\n", "b", "\n", "c">>),
               DomElement(<<"B", "R">>, << >>, << >>),
               DomElement(<<"S", "P", "A", "N">>, << >>, <<DomText(<<"x">>)>>) }
  IN  { << >> } \cup { <<a>> : a \in one } \cup { <<a, b>> : a \in one, b \in one }

ConvertBodies ==
  { DomElement(<<"B", "O", "D", "Y">>, << >>, <<e>>) : e \in ConvertElements }
  \cup { DomElement(<<"B", "O", "D", "Y">>, << >>, <<DomElement(t, << >>, <<e>>)>>) :
           t \in { <<"P", "R", "E">>, <<"F", "I", "G", "U", "R", "E">> }, e \in ConvertElements }
  \cup { DomElement(<<"B", "O", "D", "Y">>, << >>, <<DomElement(t, << >>, k)>>) :
           t \in { <<"P">>, <<"B", "L", "O", "C", "K", "Q", "U", "O", "T", "E">>, <<"S", "C", "R", "I", "P", "T">> }, k \in ConvertChildNodes }
  \cup { DomElement(<<"B", "O", "D", "Y">>, << >>, k) : k \in ConvertChildNodes }

InitConvert ==
  /\ content = HtmlContent(<< >>)
  /\ parseMode = <<"H", "T", "M", "L">>
  /\ pc = "convert"
  /\ dom \in { Some(b) : b \in ConvertBodies }
  /\ ret = NotReturned
  /\ ModuleLoaded /\ NoInstance /\ NoUpload /\ NoLegacy

\* domToNode(dom.body), the children of its result
Convert ==
  /\ pc = "convert"
  /\ pc' = "converted"
  /\ ret' = LET node == domToNode(dom[1], <<"H", "T", "M", "L">>)
            IN  Returned("nodes", << >>,
                         IF node.children = None THEN << >> ELSE node.children[1])
  /\ UNCHANGED <<content, parseMode, dom, moduleVars, apiVars, uploadVars, legacyVars>>

NextConvert == Convert

SpecConvert == InitConvert /\ [][NextConvert]_vars

\* C20: the attrs of an element the converter makes have href or src, never
\* both: the href alone, as it is, when the element has an href (with or
\* without a src); the src alone when it has a src only; no attrs otherwise.
C20_HrefOrSrc ==
  (pc = "converted") =>
    /\ Aligned
    /\ \A n \in 1..Len(DomOutPairs) :
         LET d == DomOutPairs[n][1]
             o == DomOutPairs[n][2]
             href == getNamedItem(d.attributes, "href")
             src  == getNamedItem(d.attributes, "src")
         IN  /\ href # None => o.attrs = Some(<< <<"href", href[1]>> >>)
             /\ (href = None /\ src # None) =>
                  /\ o.attrs # None /\ Len(o.attrs[1]) = 1 /\ o.attrs[1][1][1] = "src"
                  /\ d.tagName # <<"I", "F", "R", "A", "M", "E">> => o.attrs[1][1][2] = src[1]
             /\ (href = None /\ src = None) => o.attrs = None

C20_Witness ==
  /\ pc = "converted"
  /\ dom = Some(DomElement(<<"B", "O", "D", "Y">>, << >>,
                  <<DomElement(<<"I", "F", "R", "A", "M", "E">>, << <<"src", <<"h", "t", "t", "p", "s", ":", "/", "/", "t", ".", "m", "e", "/", "c", "/", "4", "2">>>>,
                                             <<"href", <<"h", "t", "t", "p", "s", ":", "/", "/", "e", "x", "a", "m", "p", "l", "e", ".", "c", "o", "m", "/", "x", ".", "p", "n", "g">>>> >>, << >>)>>))
  /\ ret.nodes = <<NodeElement(<<"i", "f", "r", "a", "m", "e">>, Some(<< <<"href", <<"h", "t", "t", "p", "s", ":", "/", "/", "e", "x", "a", "m", "p", "l", "e", ".", "c", "o", "m", "/", "x", ".", "p", "n", "g">>>> >>), None)>>

(***************************************************************************)
(* Calls of parse one after another, on the tables the module shares        *)
(***************************************************************************)
MaxCalls == 2

IFRAME_SRC_FLAGS_global(site) == "g"

\* the flags of the literals of IFRAME_SRC_REGEX: none of the four has any
IFRAME_SRC_FLAGS(site) == ""

MaxOf(S) == CHOOSE x \in S : \A y \in S : y <= x
MinOf(S) == CHOOSE x \in S : \A y \in S : x <= y

\* IFRAME_SRC_REGEX[site].test(url) when the pattern's lastIndex is li: a
\* pattern without the g flag searches from the start and leaves lastIndex
\* alone; a global one searches from lastIndex and moves it to the end of the
\* match (the quantifiers of the four patterns are greedy), or to 0.
testAt(site, url, li) ==
  IF IFRAME_SRC_FLAGS(site) = "g"
  THEN LET starts == { i \in li..Len(url) :
                         Ends(IFRAME_SRC_REGEX(site), url, i) # {} }
       IN  IF starts = {} THEN [found |-> FALSE, lastIndex |-> 0]
           ELSE [found |-> TRUE,
                 lastIndex |-> MaxOf(Ends(IFRAME_SRC_REGEX(site), url, MinOf(starts)))]
  ELSE [found |-> Test(IFRAME_SRC_REGEX(site), url), lastIndex |-> li]

RECURSIVE transformToIframeURLFrom(_, _, _)
\* the loop of transformToIframeURL from the n-th site on
transformToIframeURLFrom(n, url, li) ==
  IF n > Len(IframeSites) THEN [url |-> url, lastIndex |-> li]
  ELSE LET site   == IframeSites[n]
           tested == testAt(site, url, li[site])
           moved  == [li EXCEPT ![site] = tested.lastIndex]
       IN  IF tested.found
           THEN [url |-> EmbedURL(site, url), lastIndex |-> moved]
           ELSE transformToIframeURLFrom(n + 1, url, moved)

\* transformToIframeURL on the shared patterns: the URL and the patterns after
transformToIframeURLAt(url, li) == transformToIframeURLFrom(1, url, li)

RECURSIVE domToNodeAt(_, _, _)
RECURSIVE childNodesAt(_, _, _, _, _)

\* domToNode on the shared patterns: the node and the patterns after
domToNodeAt(element, parentTagName, li) ==
  IF element.nodeType = TEXT_NODE
  THEN [node |-> domToNode(element, parentTagName), lastIndex |-> li]
  ELSE LET tag       == toLowerCase(element.tagName)
           href      == getNamedItem(element.attributes, "href")
           src       == getNamedItem(element.attributes, "src")
           rewrites  == href = None /\ src # None /\ tag = <<"i", "f", "r", "a", "m", "e">>
           rewritten == IF rewrites THEN transformToIframeURLAt(src[1], li)
                        ELSE [url |-> << >>, lastIndex |-> li]
           kids      == childNodesAt(element.childNodes, 1, element.tagName,
                                     rewritten.lastIndex, << >>)
       IN  [node |-> NodeElement(
                       domToNodeTag(tag, parentTagName),
                       IF rewrites THEN Some(<< <<"src", rewritten.url>> >>)
                       ELSE domToNodeAttrs(tag, element.attributes),
                       IF Len(element.childNodes) > 0 THEN Some(kids.nodes) ELSE None),
            lastIndex |-> kids.lastIndex]

\* the loop over element.childNodes from the n-th child on
childNodesAt(childNodes, n, parentTagName, li, acc) ==
  IF n > Len(childNodes) THEN [nodes |-> acc, lastIndex |-> li]
  ELSE LET child == domToNodeAt(childNodes[n], parentTagName, li)
       IN  childNodesAt(childNodes, n + 1, parentTagName, child.lastIndex,
                        IF KeepChild(child.node) THEN Append(acc, child.node) ELSE acc)

\* parse on the shared patterns: the outcome and the patterns after
parseAt(text, givenMode, li) ==
  LET mode      == toLowerCase(givenMode)
      converted == domToNodeAt(domOf(text, givenMode).body, <<"H", "T", "M", "L">>, li)
      node      == converted.node
  IN  IF mode \notin PARSE_MODES
      THEN [ret |-> Thrown("Invalid parse mode"), lastIndex |-> li]
      ELSE [ret |-> IF node.kind = "string" THEN Returned("string", node.str, << >>)
                    ELSE IF node.children = None THEN Thrown("Empty content")
                    ELSE Returned("nodes", << >>, node.children[1]),
            lastIndex |-> converted.lastIndex]

SeqUrls ==
  { <<"h", "t", "t", "p", "s", ":", "/", "/", "t", "w", "i", "t", "t", "e", "r", ".", "c", "o", "m", "/", "u", "/", "s", "t", "a", "t", "u", "s", "/", "1">>, <<"h", "t", "t", "p", "s", ":", "/", "/", "t", ".", "m", "e", "/", "c", "/", "4", "2">>,
    <<"h", "t", "t", "p", "s", ":", "/", "/", "v", "i", "m", "e", "o", ".", "c", "o", "m", "/", "1", "2", "3", "4", "5", "6", "7", "8", "9">>, <<"y", "o", "u", "t", "u", ".", "b", "e", "/", "A", "B", "C", "1", "2", "3">> }

Iframe(u) == El(<<"i", "f", "r", "a", "m", "e">>, << <<"src", u>> >>, << >>)

SeqCalls ==
  { <<HtmlContent(<<Iframe(u)>>), <<"H", "T", "M", "L">>>> : u \in Urls }
  \cup { <<HtmlContent(<<El(<<"f", "i", "g", "u", "r", "e">>, << >>, <<Iframe(u), Iframe(v)>>)>>), <<"h", "t", "m", "l">>>> :
           u \in SeqUrls, v \in SeqUrls }
  \cup { <<MdContent(<<MdParagraph(<<MdText(<<"x">>)>>)>>), <<"M", "a", "r", "k", "d", "o", "w", "n">>>>,
         <<HtmlContent(<<Text(<<"x">>)>>), <<"X", "M", "L">>>>,
         <<HtmlContent(<< >>), <<"H", "T", "M", "L">>>> }

InitCalls ==
  /\ \E c \in SeqCalls : content = c[1] /\ parseMode = c[2]
  /\ pc = "call"
  /\ dom = None
  /\ ret = NotReturned
  /\ ModuleLoaded /\ NoInstance /\ NoUpload /\ NoLegacy

\* parse is synchronous: a call runs from its first statement to its return or
\* throw before any other code of the thread runs
CallParse ==
  /\ pc = "call"
  /\ pc' = "done"
  /\ dom' = IF toLowerCase(parseMode) \in PARSE_MODES
            THEN Some(domOf(content, parseMode).body) ELSE None
  /\ ret' = parseAt(content, parseMode, lastIndex).ret
  /\ lastIndex' = parseAt(content, parseMode, lastIndex).lastIndex
  /\ calls' = calls + 1
  /\ UNCHANGED <<content, parseMode, apiVars, uploadVars, legacyVars>>

\* the caller makes its next call
NextCall ==
  /\ pc = "done"
  /\ calls < MaxCalls
  /\ \E c \in SeqCalls : content' = c[1] /\ parseMode' = c[2]
  /\ pc' = "call"
  /\ dom' = None
  /\ ret' = NotReturned
  /\ UNCHANGED <<lastIndex, calls, apiVars, uploadVars, legacyVars>>

NextCalls == CallParse \/ NextCall

SpecCalls == InitCalls /\ [][NextCalls]_vars

\* C18: whatever calls came before it, a call of parse returns or throws what
\* it does when it is the only call made, and the state the calls share (the
\* lastIndex of the embed patterns; the sanitizer options and the parse-mode
\* list are never written) is as it was when the module was loaded.
C18_CallsIndependent ==
  pc = "done" =>
    /\ ret = parse(content, parseMode)
    /\ lastIndex = NoMatchYet

C18_Witness ==
  /\ pc = "done"
  /\ calls = 2
  /\ content.html = <<Iframe(<<"h", "t", "t", "p", "s", ":", "/", "/", "t", "w", "i", "t", "t", "e", "r", ".", "c", "o", "m", "/", "u", "/", "s", "t", "a", "t", "u", "s", "/", "1">>)>>
  /\ ret.nodes = <<NodeElement(<<"i", "f", "r", "a", "m", "e">>,
                     AttrsSrc(<<"/", "e", "m", "b", "e", "d", "/", "t", "w", "i", "t", "t", "e", "r", "?", "u", "r", "l", "=", "h", "t", "t", "p", "s", "%", "3", "A", "%", "2", "F", "%", "2", "F", "t", "w", "i", "t", "t", "e", "r", ".", "c", "o", "m", "%", "2", "F", "u", "%", "2", "F", "s", "t", "a", "t", "u", "s", "%", "2", "F", "1">>),
                     None)>>
====
